---- MODULE Spec2Model ----
(***************************************************************************)
(* Burn-up model builder and projection engine of bunn-up                  *)
(* (src/app/buildBurnupModel.ts): normaliseIssue, the origin deriver, the  *)
(* sprint bucketizer, computeProjection and recomputeProjectionWithFTE.    *)
(*                                                                         *)
(* Numbers.  Timestamps are integers in model ticks; one UTC day is DAY_MS *)
(* ticks, so a raw timestamp can fall inside a day and epochDayFloorMs is  *)
(* a real flooring.  A JavaScript number that need not be an integer       *)
(* (velocities, FTE, projected completion times) is an exact rational      *)
(* [n |-> numerator, d |-> denominator], reduced, d > 0; d = 0 encodes the *)
(* non-finite values (NaN = 0/0, +Infinity = 1/0, -Infinity = -1/0).       *)
(* A nullable field is <<>> (null) or <<v>>.                               *)
(***************************************************************************)
EXTENDS Integers, Sequences, FiniteSets, TLC

VARIABLES input, model, pc, prev, fteArg, base, sliderVelocity, scopeOverride

vars == <<input, model, pc, prev, fteArg, base, sliderVelocity, scopeOverride>>

(***************************************************************************)
(* Bounds of the explored inputs.                                          *)
(***************************************************************************)
\* longest issue list of the general specification
MaxIssues == 2
\* longest per-sprint completion profile of the history specification
MaxProfile == 3
\* longest sprint, in days, of the origin specification
MaxSprintLen == 15

(***************************************************************************)
(* Program constants.                                                      *)
(***************************************************************************)
\* const DAY_MS = 24 * 60 * 60 * 1000, scaled: one day is two model ticks
DAY_MS == 2
\* mutant of LOOKBACK_CLOSED: one sprint more
LOOKBACK_CLOSED_Nine == 8 + 1

\* const LOOKBACK_CLOSED = 8
LOOKBACK_CLOSED == 8
\* sprintLengthDays ?? 14
DefaultSprintLengthDays == 14

(***************************************************************************)
(* Nullable values.                                                        *)
(***************************************************************************)
Null == <<>>
Some(v) == <<v>>
IsNull(o) == o = <<>>
Val(o) == o[1]

\* A const of the source: F applied to the value of x, computed once
Let(x, F(_)) == CHOOSE r \in {F(v) : v \in {x}} : TRUE

(***************************************************************************)
(* Exact rationals standing for JavaScript numbers.                        *)
(***************************************************************************)
Abs(x) == IF x < 0 THEN -x ELSE x
IMax(a, b) == IF a < b THEN b ELSE a
IMin(a, b) == IF a < b THEN a ELSE b
Sign(x) == IF x < 0 THEN -1 ELSE IF x > 0 THEN 1 ELSE 0

RECURSIVE Gcd(_, _)
Gcd(a, b) == IF b = 0 THEN a ELSE Gcd(b, a % b)

Rat(n, d) ==
  IF d = 0 THEN [n |-> Sign(n), d |-> 0]
  ELSE LET g == Gcd(Abs(n), Abs(d))
           s == IF d < 0 THEN -1 ELSE 1
       IN [n |-> s * (n \div g), d |-> s * (d \div g)]

R(i) == [n |-> i, d |-> 1]
NaN == [n |-> 0, d |-> 0]
Infinity == [n |-> 1, d |-> 0]

\* Number.MAX_VALUE at the scale of the model: the result of an arithmetic
\* operation beyond it is +Infinity or -Infinity, as for a double
MAX_VALUE == 100000
Overflow(x) ==
  IF x.d # 0 /\ (\/ Abs(x.n) \div x.d > MAX_VALUE
                 \/ (Abs(x.n) \div x.d = MAX_VALUE /\ Abs(x.n) % x.d > 0))
  THEN [n |-> Sign(x.n), d |-> 0]
  ELSE x

\* Number.isFinite
IsFinite(x) == x.d # 0
IsNaN(x) == x.d = 0 /\ x.n = 0

\* a < b, a <= b, a > b on numbers: every comparison with NaN is false
RLt(a, b) ==
  IF IsNaN(a) \/ IsNaN(b) THEN FALSE
  ELSE IF a.d = 0 /\ b.d = 0 THEN a.n < b.n
  ELSE IF a.d = 0 THEN a.n < 0
  ELSE IF b.d = 0 THEN b.n > 0
  ELSE LET g == Gcd(a.d, b.d) IN a.n * (b.d \div g) < b.n * (a.d \div g)
RLe(a, b) == (~IsNaN(a) /\ ~IsNaN(b)) /\ (a = b \/ RLt(a, b))
RGt(a, b) == RLt(b, a)

RAdd(a, b) ==
  IF a.d = 0 \/ b.d = 0
  THEN (IF IsNaN(a) \/ IsNaN(b) THEN NaN
        ELSE IF a.d = 0 /\ b.d = 0 THEN (IF a.n = b.n THEN a ELSE NaN)
        ELSE IF a.d = 0 THEN a ELSE b)
  ELSE LET g == Gcd(a.d, b.d)
       IN Overflow(Rat(a.n * (b.d \div g) + b.n * (a.d \div g), (a.d \div g) * b.d))
RNeg(a) == [n |-> -a.n, d |-> a.d]
RSub(a, b) == RAdd(a, RNeg(b))
RMul(a, b) ==
  IF a.d = 0 \/ b.d = 0
  THEN (IF IsNaN(a) \/ IsNaN(b) \/ a.n = 0 \/ b.n = 0 THEN NaN
        ELSE [n |-> Sign(a.n) * Sign(b.n), d |-> 0])
  ELSE LET g == IMax(1, Gcd(Abs(a.n), b.d))
           h == IMax(1, Gcd(Abs(b.n), a.d))
       IN Overflow(Rat((a.n \div g) * (b.n \div h), (a.d \div h) * (b.d \div g)))
\* a / b with IEEE results for a zero or non-finite divisor
RDiv(a, b) ==
  IF IsNaN(a) \/ IsNaN(b) THEN NaN
  ELSE IF a.d = 0 THEN (IF b.d = 0 THEN NaN
                        ELSE [n |-> a.n * (IF b.n < 0 THEN -1 ELSE 1), d |-> 0])
  ELSE IF b.d = 0 THEN R(0)
  ELSE IF b.n = 0 THEN (IF a.n = 0 THEN NaN ELSE [n |-> Sign(a.n), d |-> 0])
  ELSE LET g == IMax(1, Gcd(Abs(a.n), Abs(b.n)))
           h == Gcd(a.d, b.d)
       IN Overflow(Rat((a.n \div g) * (b.d \div h), (a.d \div h) * (b.n \div g)))

\* Math.max / Math.min of two numbers (NaN if either is NaN)
RMax(a, b) == IF IsNaN(a) \/ IsNaN(b) THEN NaN ELSE IF RLt(a, b) THEN b ELSE a
RMin(a, b) == IF IsNaN(a) \/ IsNaN(b) THEN NaN ELSE IF RLt(b, a) THEN b ELSE a

\* Math.floor, Math.ceil, Math.round (half up) of a finite number, as integers
FloorInt(x) == x.n \div x.d
CeilInt(x) == -((-x.n) \div x.d)
RoundInt(x) == (2 * x.n + x.d) \div (2 * x.d)
\* Math.round as a number: a non-finite argument is returned as it is
Round(x) == IF IsFinite(x) THEN R(RoundInt(x)) ELSE x

\* Math.min(...arr), Math.max(...arr) of a non-empty array of integers
SetMin(S) == CHOOSE x \in S : \A y \in S : x <= y
SetMax(S) == CHOOSE x \in S : \A y \in S : x >= y

(***************************************************************************)
(* Status text: a string is the sequence of its characters.                *)
(***************************************************************************)
Lower == <<"a", "c", "d", "e", "h", "i", "l", "n", "o", "r", "t", "w">>
Upper == <<"A", "C", "D", "E", "H", "I", "L", "N", "O", "R", "T", "W">>

\* String.prototype.toUpperCase, one character
UpperChar(c) ==
  IF \E k \in 1..Len(Lower) : Lower[k] = c
  THEN Upper[CHOOSE k \in 1..Len(Lower) : Lower[k] = c]
  ELSE c
\* String.prototype.toUpperCase
ToUpperCase(s) == [k \in 1..Len(s) |-> UpperChar(s[k])]

\* String.prototype.trim
RECURSIVE TrimLeft(_)
TrimLeft(s) == IF Len(s) > 0 /\ s[1] = " " THEN TrimLeft(Tail(s)) ELSE s
RECURSIVE TrimRight(_)
TrimRight(s) ==
  IF Len(s) > 0 /\ s[Len(s)] = " " THEN TrimRight(SubSeq(s, 1, Len(s) - 1))
  ELSE s
Trim(s) == TrimRight(TrimLeft(s))

\* String.prototype.startsWith, String.prototype.includes
StartsWith(s, p) == Len(p) <= Len(s) /\ SubSeq(s, 1, Len(p)) = p
Includes(s, p) ==
  \E k \in 0..(Len(s) - Len(p)) : SubSeq(s, k + 1, k + Len(p)) = p

WITHDRAWN == <<"W", "I", "T", "H", "D", "R", "A", "W", "N">>
CANCELLED == <<"C", "A", "N", "C", "E", "L", "L", "E", "D">>
DONE == <<"D", "O", "N", "E">>
DONE_SP == <<"D", "O", "N", "E", " ">>

(***************************************************************************)
(* Date/time utilities.                                                    *)
(***************************************************************************)
\* epochDayFloorMs
epochDayFloorMs(ms) ==
  IF ~IsFinite(ms) THEN NaN ELSE R(FloorInt(RDiv(ms, R(DAY_MS))) * DAY_MS)

\* new Date(ms).getUTCDay(): 0 = Sunday ... 6 = Saturday; 1970-01-01 is a Thursday
getUTCDay(ms) == ((ms \div DAY_MS) + 4) % 7

\* the while loop of subtractWorkingDaysUTC
RECURSIVE SubtractLoop(_, _)
SubtractLoop(ms, left) ==
  IF left > 0
  THEN LET ms1 == ms - DAY_MS
           dow == getUTCDay(ms1)
       IN SubtractLoop(ms1, IF dow # 0 /\ dow # 6 THEN left - 1 ELSE left)
  ELSE ms

\* subtractWorkingDaysUTC(endMs, workingDays), endMs finite, workingDays an integer
subtractWorkingDaysUTC(endMs, workingDays) ==
  SubtractLoop(epochDayFloorMs(R(endMs)).n, IMax(0, workingDays))

\* An ISO date string of the input: [kind |-> "ok", day |-> epoch day],
\* [kind |-> "bad"] (present but not a date) or [kind |-> "absent"] (empty).
\* parseISODate: Date.UTC(y, m, d) of a parseable string, NaN otherwise
parseISODate(iso) == IF iso.kind = "ok" THEN R(iso.day * DAY_MS) ELSE NaN

\* A Jira date string is <<>> (missing or not a date) or <<ms>> (Date.parse).
\* parseJiraDate
parseJiraDate(value) ==
  IF IsNull(value) THEN NaN ELSE epochDayFloorMs(R(Val(value)))

(***************************************************************************)
(* Issue normalizer.                                                       *)
(***************************************************************************)
\* JavaScript truthiness of a number | null that is never NaN
Truthy(o) == ~IsNull(o) /\ Val(o) # 0

\* mutant of IsCancelledStatus: WITHDRAWN forgotten
IsCancelled_OnlyCancelled(rawStatus) == Includes(rawStatus, CANCELLED)

\* the isCancelled test of normaliseIssue
IsCancelledStatus(rawStatus) ==
  Includes(rawStatus, WITHDRAWN) \/ Includes(rawStatus, CANCELLED)

\* mutant of NormaliseWith: a cancelled issue with a done signal is done
NormaliseWith_CancelledDone(issue, createdMs, rawStatus) ==
  LET categoryDone == issue.statusCategory = "Done"
      parsed == parseJiraDate(issue.resolutiondate)
      resolved0 == IF ~IsNull(issue.resolutiondate) /\ IsFinite(parsed)
                   THEN Some(parsed.n) ELSE Null
      resolvedMs == IF ~Truthy(resolved0) /\ (categoryDone \/ rawStatus = DONE)
                    THEN Some(createdMs) ELSE resolved0
  IN [createdMs |-> createdMs, resolvedMs |-> resolvedMs,
      isDone |-> /\ Truthy(resolvedMs)
                 /\ (categoryDone \/ rawStatus = DONE \/ StartsWith(rawStatus, DONE_SP)),
      isCancelled |-> IsCancelledStatus(rawStatus)]

\* normaliseIssue after the creation date parsed to createdMs and the status
\* text was trimmed and upper-cased to rawStatus
NormaliseWith(issue, createdMs, rawStatus) ==
  LET categoryDone == issue.statusCategory = "Done"
      isCancelled == IsCancelledStatus(rawStatus)
      parsed == parseJiraDate(issue.resolutiondate)
      resolved0 == IF ~IsNull(issue.resolutiondate) /\ IsFinite(parsed)
                   THEN Some(parsed.n) ELSE Null
      resolvedMs == IF ~Truthy(resolved0) /\ (categoryDone \/ rawStatus = DONE)
                    THEN Some(createdMs) ELSE resolved0
      isDone == /\ Truthy(resolvedMs)
                /\ ~isCancelled
                /\ (categoryDone \/ rawStatus = DONE \/ StartsWith(rawStatus, DONE_SP))
  IN [createdMs |-> createdMs, resolvedMs |-> resolvedMs,
      isDone |-> isDone, isCancelled |-> isCancelled]

\* mutant of normaliseIssue: an issue without a creation date is kept, created
\* at the epoch
normaliseIssue_KeepsUndated(issue) ==
  IF IsNull(issue.created) \/ ~IsFinite(parseJiraDate(issue.created))
  THEN Some(NormaliseWith(issue, 0, ToUpperCase(Trim(issue.status))))
  ELSE Let(<<parseJiraDate(issue.created).n, ToUpperCase(Trim(issue.status))>>,
           LAMBDA c : Some(NormaliseWith(issue, c[1], c[2])))

\* normaliseIssue: <<>> for a dropped issue, else <<NormalisedIssue>>
normaliseIssue(issue) ==
  IF IsNull(issue.created) \/ ~IsFinite(parseJiraDate(issue.created)) THEN Null
  ELSE Let(<<parseJiraDate(issue.created).n, ToUpperCase(Trim(issue.status))>>,
           LAMBDA c : Some(NormaliseWith(issue, c[1], c[2])))

\* (input.stories ?? []).map(normaliseIssue).filter(Boolean)
RECURSIVE NormaliseAll(_)
NormaliseAll(stories) ==
  IF stories = <<>> THEN <<>>
  ELSE normaliseIssue(Head(stories)) \o NormaliseAll(Tail(stories))

(***************************************************************************)
(* Projection engine.                                                      *)
(***************************************************************************)
NoProjection ==
  [hasSignal |-> FALSE, fromSprintIndex |-> Null, fromTimeMs |-> Null,
   fromDone |-> Null, projectedDonePerSprint |-> Null, avgVelPerFTE |-> Null,
   projectedCompletionMs |-> Null, projectedCompletionEarlyMs |-> Null,
   projectedCompletionLateMs |-> Null, requiredFTEToHitTarget |-> Null,
   suggestedMaxFTE |-> Null, remainingStoriesFromAnchor |-> Null,
   sprintsRemainingToTarget |-> Null,
   requiredStoriesPerSprintToHitTarget |-> Null,
   recentStoriesPerSprint |-> Null]

\* sprints[i] of the source is sprints[i + 1] here
At(sprints, i) == sprints[i + 1]

\* the "find last closed sprint" loop: the index, or -1 for null
RECURSIVE LastClosedFrom(_, _)
LastClosedFrom(sprints, i) ==
  IF i < 0 THEN -1
  ELSE IF At(sprints, i).isClosed THEN i
  ELSE LastClosedFrom(sprints, i - 1)

RECURSIVE SumSeq(_)
SumSeq(q) == IF q = <<>> THEN R(0) ELSE RAdd(Head(q), SumSeq(Tail(q)))

\* the loop of avgStoriesLastNClosed: the values pushed
RECURSIVE LastNClosedVals(_, _, _, _)
LastNClosedVals(sprints, i, n, vals) ==
  IF i >= 0 /\ Len(vals) < n
  THEN IF ~At(sprints, i).isClosed
       THEN LastNClosedVals(sprints, i - 1, n, vals)
       ELSE LastNClosedVals(sprints, i - 1, n,
                            Append(vals, R(At(sprints, i).doneThisSprint)))
  ELSE vals

avgStoriesLastNClosed(sprints, lastClosedIndex, n) ==
  LET vals == LastNClosedVals(sprints, lastClosedIndex, n, <<>>)
  IN IF vals = <<>> THEN Null ELSE Some(RDiv(SumSeq(vals), R(Len(vals))))

\* mutant of SamplesWanted: one sample more
SamplesWanted_Three == 2 + 1

\* the number of non-zero samples after which the velocity scan stops
SamplesWanted == 2

\* mutant of FteFloor: a floor of 1 FTE
FteFloor_One(sprintFTE) ==
  RMax(R(1), IF IsFinite(sprintFTE) THEN sprintFTE ELSE R(0))

\* const fte = Math.max(0.1, Number.isFinite(sprintFTE) ? sprintFTE : 0)
FteFloor(sprintFTE) ==
  RMax(Rat(1, 10), IF IsFinite(sprintFTE) THEN sprintFTE ELSE R(0))

\* the look-back loop of computeProjection: nonZeroVelPerFTE
RECURSIVE VelScan(_, _, _, _, _)
VelScan(sprints, i, takenClosed, fte, acc) ==
  IF i >= 0 /\ takenClosed < LOOKBACK_CLOSED
  THEN IF ~At(sprints, i).isClosed
       THEN VelScan(sprints, i - 1, takenClosed, fte, acc)
       ELSE LET doneThis == At(sprints, i).doneThisSprint
                acc1 == IF doneThis > 0
                        THEN Append(acc, RDiv(R(doneThis), fte)) ELSE acc
            IN IF doneThis > 0 /\ Len(acc1) >= SamplesWanted THEN acc1
               ELSE VelScan(sprints, i - 1, takenClosed + 1, fte, acc1)
  ELSE acc

\* mutant of CompletionTimes: nothing remaining projects the next sprint boundary
CompletionTimes_NextBoundary(fromTimeMs, remaining, projectedDonePerSprint, sprintLenMs) ==
  LET at(v) == RAdd(R(fromTimeMs + sprintLenMs),
                    RMul(RDiv(R(remaining), v), R(sprintLenMs)))
  IN <<at(projectedDonePerSprint),
       at(RMul(projectedDonePerSprint, Rat(6, 5))),
       at(RMul(projectedDonePerSprint, Rat(4, 5)))>>

\* mutant of CompletionTimes: the optimistic and pessimistic factors exchanged
CompletionTimes_BandsSwapped(fromTimeMs, remaining, projectedDonePerSprint, sprintLenMs) ==
  IF remaining = 0
  THEN <<R(fromTimeMs), R(fromTimeMs), R(fromTimeMs)>>
  ELSE LET at(v) == RAdd(R(fromTimeMs),
                         RMul(RDiv(R(remaining), v), R(sprintLenMs)))
       IN <<at(projectedDonePerSprint),
            at(RMul(projectedDonePerSprint, Rat(4, 5))),
            at(RMul(projectedDonePerSprint, Rat(6, 5)))>>

\* the completion timestamps of computeProjection and recomputeProjectionWithFTE
\* for a positive velocity: <<central, early, late>>
CompletionTimes(fromTimeMs, remaining, projectedDonePerSprint, sprintLenMs) ==
  IF remaining = 0
  THEN <<R(fromTimeMs), R(fromTimeMs), R(fromTimeMs)>>
  ELSE LET at(v) == RAdd(R(fromTimeMs),
                         RMul(RDiv(R(remaining), v), R(sprintLenMs)))
           central == at(projectedDonePerSprint)
           fast == RMul(projectedDonePerSprint, Rat(6, 5))
           slow == RMul(projectedDonePerSprint, Rat(4, 5))
       IN <<central,
            IF RGt(fast, R(0)) THEN at(fast) ELSE central,
            IF RGt(slow, R(0)) THEN at(slow) ELSE central>>

\* mutant of RequiredFTE: the slider ceiling is always the current FTE plus one
RequiredFTE_CurrentPlusOne(avgVelPerFTE, sprintFTE, remainingToTarget, targetDateMs, fromTimeMs, sprintLenMs) ==
  IF RGt(avgVelPerFTE, R(0)) /\ IsFinite(targetDateMs)
  THEN IF remainingToTarget <= 0
       THEN <<Some(R(0)), Some(RAdd(RMax(sprintFTE, R(0)), R(1)))>>
       ELSE IF RGt(targetDateMs, R(fromTimeMs))
       THEN LET fteRequired ==
                  RDiv(RDiv(R(remainingToTarget),
                            RDiv(RSub(targetDateMs, R(fromTimeMs)), R(sprintLenMs))),
                       avgVelPerFTE)
            IN IF IsFinite(fteRequired) /\ RGt(fteRequired, R(0))
               THEN <<Some(fteRequired), Some(RAdd(RMax(sprintFTE, R(0)), R(1)))>>
               ELSE <<Null, Null>>
       ELSE <<Null, Null>>
  ELSE <<Null, Null>>

\* the "FTE needed to hit target" block: <<requiredFTEToHitTarget, suggestedMaxFTE>>
RequiredFTE(avgVelPerFTE, sprintFTE, remainingToTarget, targetDateMs, fromTimeMs, sprintLenMs) ==
  IF RGt(avgVelPerFTE, R(0)) /\ IsFinite(targetDateMs)
  THEN IF remainingToTarget <= 0
       THEN <<Some(R(0)), Some(RAdd(RMax(sprintFTE, R(0)), R(1)))>>
       ELSE IF RGt(targetDateMs, R(fromTimeMs))
       THEN LET sprintsFloat == RDiv(RSub(targetDateMs, R(fromTimeMs)),
                                     R(sprintLenMs))
                fteRequired == RDiv(RDiv(R(remainingToTarget), sprintsFloat),
                                    avgVelPerFTE)
            IN IF RGt(sprintsFloat, R(0)) /\ IsFinite(fteRequired)
                  /\ RGt(fteRequired, R(0))
               THEN <<Some(fteRequired), Some(RAdd(fteRequired, R(1)))>>
               ELSE <<Null, Null>>
       ELSE <<Null, Null>>
  ELSE <<Null, Null>>

computeProjection(sprints, sprintLenMs, sprintFTE, latestScope, targetScope, targetDateMs) ==
  IF sprints = <<>> THEN NoProjection
  ELSE
  LET lastClosedIndex == LastClosedFrom(sprints, Len(sprints) - 1)
  IN IF lastClosedIndex < 0 THEN NoProjection
  ELSE
  LET fromTimeMs == At(sprints, lastClosedIndex).endMs
      fromDone == At(sprints, lastClosedIndex).cumDoneEnd
      remainingStoriesFromAnchor == IMax(0, latestScope - fromDone)
      remainingToTarget == IMax(0, targetScope - fromDone)
      hasTime == IsFinite(targetDateMs) /\ RGt(targetDateMs, R(fromTimeMs))
      sprintsFloat == RDiv(RSub(targetDateMs, R(fromTimeMs)), R(sprintLenMs))
      sprintsRemainingToTarget ==
        IF hasTime /\ RGt(sprintsFloat, R(0))
        THEN Some(CeilInt(sprintsFloat)) ELSE Null
      requiredStoriesPerSprintToHitTarget ==
        IF hasTime /\ RGt(sprintsFloat, R(0))
        THEN Some(IF remainingToTarget > 0
                  THEN RDiv(R(remainingToTarget), sprintsFloat) ELSE R(0))
        ELSE Null
      fte == FteFloor(sprintFTE)
      recentStoriesPerSprint == avgStoriesLastNClosed(sprints, lastClosedIndex, 2)
      nonZeroVelPerFTE == VelScan(sprints, lastClosedIndex, 0, fte, <<>>)
      anchored ==
        [NoProjection EXCEPT
           !.fromSprintIndex = Some(lastClosedIndex),
           !.fromTimeMs = Some(fromTimeMs),
           !.fromDone = Some(fromDone),
           !.remainingStoriesFromAnchor = Some(remainingStoriesFromAnchor),
           !.sprintsRemainingToTarget = sprintsRemainingToTarget,
           !.requiredStoriesPerSprintToHitTarget =
               requiredStoriesPerSprintToHitTarget,
           !.recentStoriesPerSprint = recentStoriesPerSprint]
  IN IF nonZeroVelPerFTE = <<>> THEN anchored
  ELSE
  LET avgVelPerFTE == RDiv(SumSeq(nonZeroVelPerFTE), R(Len(nonZeroVelPerFTE)))
      req == RequiredFTE(avgVelPerFTE, sprintFTE, remainingToTarget,
                         targetDateMs, fromTimeMs, sprintLenMs)
      projectedDonePerSprint == RMul(avgVelPerFTE, fte)
      withVel == [anchored EXCEPT !.avgVelPerFTE = Some(avgVelPerFTE),
                                  !.requiredFTEToHitTarget = req[1],
                                  !.suggestedMaxFTE = req[2]]
  IN IF ~RGt(projectedDonePerSprint, R(0)) THEN withVel
  ELSE
  LET remaining == IMax(0, latestScope - fromDone)
      t == CompletionTimes(fromTimeMs, remaining, projectedDonePerSprint,
                           sprintLenMs)
  IN [withVel EXCEPT !.hasSignal = TRUE,
                     !.projectedDonePerSprint = Some(projectedDonePerSprint),
                     !.projectedCompletionMs = Some(t[1]),
                     !.projectedCompletionEarlyMs = Some(t[2]),
                     !.projectedCompletionLateMs = Some(t[3])]

(***************************************************************************)
(* Model builder: origin deriver and sprint bucketizer.                    *)
(***************************************************************************)
\* mutant of emptyModel: the empty model reports "on track"
emptyModel_OnTrack(sprintLengthDays, originMs, targetDateMs, todayMs) ==
  [sprintLengthDays |-> sprintLengthDays,
   originMs |-> IF IsFinite(originMs) THEN originMs ELSE todayMs,
   targetDateMs |-> IF IsFinite(targetDateMs) THEN targetDateMs ELSE todayMs,
   targetScope |-> 0,
   latestScope |-> 0,
   todayMs |-> todayMs,
   currentSprintStartMs |-> IF IsFinite(originMs) THEN originMs ELSE todayMs,
   currentSprintEndMs |-> IF IsFinite(originMs) THEN originMs ELSE todayMs,
   sprints |-> <<>>,
   projection |-> NoProjection,
   totalDoneStories |-> 0,
   hasAnyDone |-> FALSE,
   isOnTrack |-> Some(TRUE),
   daysDeltaFromTarget |-> Some(R(0))]

emptyModel(sprintLengthDays, originMs, targetDateMs, todayMs) ==
  LET safeOrigin == IF IsFinite(originMs) THEN originMs ELSE todayMs
  IN [sprintLengthDays |-> sprintLengthDays,
      originMs |-> safeOrigin,
      targetDateMs |-> IF IsFinite(targetDateMs) THEN targetDateMs ELSE todayMs,
      targetScope |-> 0,
      latestScope |-> 0,
      todayMs |-> todayMs,
      currentSprintStartMs |-> safeOrigin,
      currentSprintEndMs |-> safeOrigin,
      sprints |-> <<>>,
      projection |-> NoProjection,
      totalDoneStories |-> 0,
      hasAnyDone |-> FALSE,
      isOnTrack |-> Null,
      daysDeltaFromTarget |-> Null]

\* stories.filter(pred).length
CountIf(stories, pred(_)) == Cardinality({k \in 1..Len(stories) : pred(stories[k])})

\* mutant of ScopeBefore: the scope still open at endMs, resolved issues left out
ScopeBefore_OpenOnly(stories, endMs) ==
  LET open(s) == /\ s.createdMs < endMs /\ ~s.isCancelled
                 /\ (IsNull(s.resolvedMs) \/ Val(s.resolvedMs) >= endMs)
  IN CountIf(stories, open)

\* scopeAtEnd of the window ending at endMs
ScopeBefore(stories, endMs) ==
  LET inScope(s) == s.createdMs < endMs /\ ~s.isCancelled
  IN CountIf(stories, inScope)

\* doneByEndRaw of the window ending at endMs
DoneBefore(stories, endMs) ==
  LET doneBy(s) == /\ s.isDone
                   /\ ~IsNull(s.resolvedMs)
                   /\ Val(s.resolvedMs) < endMs
                   /\ s.createdMs < endMs
                   /\ ~s.isCancelled
  IN CountIf(stories, doneBy)

\* cumDoneEnd = Math.min(doneByEndRaw, scopeAtEnd)
ClampDone(doneByEndRaw, scopeAtEnd) == IMin(doneByEndRaw, scopeAtEnd)

\* mutant of SprintAt: doneThisSprint is the cumulative count in every sprint
SprintAt_DoneIsCumulative(stories, originMs, sprintLenMs, todayMs, i, prevScopeAtEnd, prevCumDone) ==
  LET startMs == originMs + i * sprintLenMs
      endMs == startMs + sprintLenMs
      scopeAtEnd == ScopeBefore(stories, endMs)
      cumDoneEnd == ClampDone(DoneBefore(stories, endMs), scopeAtEnd)
  IN [index |-> i, startMs |-> startMs, endMs |-> endMs,
      scopeAtEnd |-> scopeAtEnd,
      scopeAtStart |-> IF i = 0 THEN 0 ELSE prevScopeAtEnd,
      doneThisSprint |-> cumDoneEnd, cumDoneEnd |-> cumDoneEnd,
      isClosed |-> RLe(R(endMs), todayMs)]

\* one pass of the bucketing loop: the SprintSummary pushed for sprint i
SprintAt(stories, originMs, sprintLenMs, todayMs, i, prevScopeAtEnd, prevCumDone) ==
  LET startMs == originMs + i * sprintLenMs
      endMs == startMs + sprintLenMs
      isClosed == RLe(R(endMs), todayMs)
      scopeAtEnd == ScopeBefore(stories, endMs)
      scopeAtStart == IF i = 0 THEN 0 ELSE prevScopeAtEnd
      cumDoneEnd == ClampDone(DoneBefore(stories, endMs), scopeAtEnd)
      doneThisSprint == IF i = 0 THEN cumDoneEnd
                        ELSE IMax(0, cumDoneEnd - prevCumDone)
  IN [index |-> i, startMs |-> startMs, endMs |-> endMs,
      scopeAtEnd |-> scopeAtEnd, scopeAtStart |-> scopeAtStart,
      doneThisSprint |-> doneThisSprint, cumDoneEnd |-> cumDoneEnd,
      isClosed |-> isClosed]

\* the bucketing loop, from sprint i on; originMs and horizonMs are finite
RECURSIVE BuildSprints(_, _, _, _, _, _, _, _)
BuildSprints(stories, originMs, sprintLenMs, horizonMs, todayMs, i, prevScopeAtEnd, prevCumDone) ==
  IF originMs + i * sprintLenMs > horizonMs THEN <<>>
  ELSE Let(SprintAt(stories, originMs, sprintLenMs, todayMs, i,
                    prevScopeAtEnd, prevCumDone),
           LAMBDA sp :
             <<sp>> \o BuildSprints(stories, originMs, sprintLenMs, horizonMs,
                                    todayMs, sp.index + 1, sp.scopeAtEnd,
                                    sp.cumDoneEnd))

\* computeScopeAtDate
computeScopeAtDate(sprints, dateMs) ==
  IF sprints = <<>> THEN 0
  ELSE IF \E k \in 1..Len(sprints) : RLe(dateMs, R(sprints[k].endMs))
  THEN sprints[CHOOSE k \in 1..Len(sprints) :
                 /\ RLe(dateMs, R(sprints[k].endMs))
                 /\ \A j \in 1..(k - 1) : ~RLe(dateMs, R(sprints[j].endMs))].scopeAtEnd
  ELSE sprints[Len(sprints)].scopeAtEnd

\* const sprintLenDays = input.sprintLengthDays ?? 14
SprintLenDays(inp) ==
  IF IsNull(inp.sprintLengthDays) THEN DefaultSprintLengthDays
  ELSE Val(inp.sprintLengthDays)

\* const todayMs = input.todayISO ? parseISODate(input.todayISO)
\*                                : epochDayFloorMs(Date.now())
TodayMs(inp) ==
  IF inp.todayISO.kind # "absent" THEN parseISODate(inp.todayISO)
  ELSE epochDayFloorMs(R(inp.now))

\* const sprintFTE = Math.max(0, Number.isFinite(input.sprintFTE) ? input.sprintFTE : 0)
SafeFte(sprintFTE) == RMax(R(0), IF IsFinite(sprintFTE) THEN sprintFTE ELSE R(0))

\* mutant of WorkingDaysBack: Math.floor for Math.round
WorkingDaysBack_Floor(sprintLenDays) == IMax(1, FloorInt(Rat(sprintLenDays * 5, 7)))

\* const workingDaysBack = Math.max(1, Math.round((sprintLenDays * 5) / 7))
WorkingDaysBack(sprintLenDays) == IMax(1, RoundInt(Rat(sprintLenDays * 5, 7)))

\* mutant of DeriveOrigin: without completions a parseable fallback start wins
\* over the earliest creation day
DeriveOrigin_FallbackWins(stories, uiOriginMs, todayMs, sprintLenDays) ==
  IF stories = <<>>
  THEN (IF IsFinite(uiOriginMs) THEN uiOriginMs ELSE todayMs)
  ELSE
    LET validDone == {k \in 1..Len(stories) :
                        /\ stories[k].isDone
                        /\ ~stories[k].isCancelled
                        /\ ~IsNull(stories[k].resolvedMs)}
    IN IF validDone # {}
       THEN R(subtractWorkingDaysUTC(
                SetMin({Val(stories[k].resolvedMs) : k \in validDone}),
                WorkingDaysBack(sprintLenDays)))
       ELSE IF IsFinite(uiOriginMs) THEN uiOriginMs
            ELSE R(SetMin({stories[k].createdMs : k \in 1..Len(stories)}))

\* mutant of DeriveOrigin: a parseable fallback start before the origin derived
\* from the completions replaces it
DeriveOrigin_FallbackCaps(stories, uiOriginMs, todayMs, sprintLenDays) ==
  IF IsFinite(uiOriginMs)
  THEN RMin(uiOriginMs,
            DeriveOrigin_FallbackWins(stories, uiOriginMs, todayMs, sprintLenDays))
  ELSE DeriveOrigin_FallbackWins(stories, uiOriginMs, todayMs, sprintLenDays)

\* the origin deriver of buildBurnupModel: originMs before the final flooring
DeriveOrigin(stories, uiOriginMs, todayMs, sprintLenDays) ==
  IF stories = <<>>
  THEN (IF IsFinite(uiOriginMs) THEN uiOriginMs ELSE todayMs)
  ELSE
    LET validDone == {k \in 1..Len(stories) :
                        /\ stories[k].isDone
                        /\ ~stories[k].isCancelled
                        /\ ~IsNull(stories[k].resolvedMs)}
    IN IF validDone # {}
       THEN LET earliestDoneMs ==
                  SetMin({Val(stories[k].resolvedMs) : k \in validDone})
            IN R(subtractWorkingDaysUTC(earliestDoneMs,
                                        WorkingDaysBack(sprintLenDays)))
       ELSE LET earliestCreatedMs ==
                  SetMin({stories[k].createdMs : k \in 1..Len(stories)})
            IN IF IsFinite(uiOriginMs)
               THEN RMin(uiOriginMs, R(earliestCreatedMs))
               ELSE R(earliestCreatedMs)

\* originMs as used by the bucketing loop, from the normalised stories
OriginMs(stories, inp) ==
  Let(DeriveOrigin(stories, parseISODate(inp.sprintStartISO), TodayMs(inp),
                   SprintLenDays(inp)),
      LAMBDA o : epochDayFloorMs(IF ~IsFinite(o) THEN TodayMs(inp) ELSE o))

\* mutant of HorizonMs: no overshoot of six sprints, the issues' dates ignored
HorizonMs_TodayOrTarget(stories, originMs, inp) ==
  RMax(RMax(TodayMs(inp), parseISODate(inp.devCompletionISO)), originMs)

\* horizonMs = Math.max(todayMs, targetDateMs, lastStoryMs) + sprintLenMs * 6
HorizonMs(stories, originMs, inp) ==
  LET lastStoryCreatedMs ==
        IF stories # <<>>
        THEN R(SetMax({stories[k].createdMs : k \in 1..Len(stories)}))
        ELSE originMs
      resolvedArr == {Val(stories[k].resolvedMs) :
                        k \in {j \in 1..Len(stories) : ~IsNull(stories[j].resolvedMs)}}
      lastStoryMs ==
        IF resolvedArr # {} THEN RMax(lastStoryCreatedMs, R(SetMax(resolvedArr)))
        ELSE lastStoryCreatedMs
      baseHorizonMs == RMax(RMax(TodayMs(inp), parseISODate(inp.devCompletionISO)),
                            lastStoryMs)
  IN RAdd(baseHorizonMs, R(SprintLenDays(inp) * DAY_MS * 6))

\* The while (true) loop leaves only through "startMs > horizonMs", which is
\* false for ever when either side is NaN: the build then never returns.
BuildDiverges(inp) ==
  /\ IsFinite(parseISODate(inp.devCompletionISO))
  /\ Let(NormaliseAll(inp.stories), LAMBDA stories :
       Let(OriginMs(stories, inp), LAMBDA originMs :
         ~IsFinite(originMs) \/ ~IsFinite(HorizonMs(stories, originMs, inp))))

\* the health fields: <<isOnTrack, daysDeltaFromTarget>>
Health(projection, targetDateMs) ==
  IF projection.hasSignal /\ ~IsNull(projection.projectedCompletionMs)
  THEN Let(Round(RDiv(RSub(Val(projection.projectedCompletionMs), targetDateMs),
                      R(DAY_MS))),
           LAMBDA daysDelta :
             <<IF IsFinite(daysDelta) THEN Some(RLe(daysDelta, R(0))) ELSE Null,
               Some(daysDelta)>>)
  ELSE <<Null, Null>>

\* mutant of CurrentSprint: Math.ceil for Math.floor
CurrentSprint_CeilIndex(originMs, todayMs, sprintLenDays) ==
  IF IsFinite(originMs) /\ IsFinite(todayMs) /\ sprintLenDays * DAY_MS > 0
  THEN LET sprintLenMs == sprintLenDays * DAY_MS
           idx == IMax(0, CeilInt(RDiv(RSub(todayMs, originMs), R(sprintLenMs))))
           currentSprintStartMs == RAdd(originMs, R(idx * sprintLenMs))
       IN <<currentSprintStartMs,
            RAdd(currentSprintStartMs, R((sprintLenDays - 1) * DAY_MS))>>
  ELSE <<originMs, originMs>>

\* the current sprint window: <<currentSprintStartMs, currentSprintEndMs>>
CurrentSprint(originMs, todayMs, sprintLenDays) ==
  IF IsFinite(originMs) /\ IsFinite(todayMs) /\ sprintLenDays * DAY_MS > 0
  THEN LET sprintLenMs == sprintLenDays * DAY_MS
           idx == IMax(0, FloorInt(RDiv(RSub(todayMs, originMs), R(sprintLenMs))))
           currentSprintStartMs == RAdd(originMs, R(idx * sprintLenMs))
       IN <<currentSprintStartMs,
            RAdd(currentSprintStartMs, R((sprintLenDays - 1) * DAY_MS))>>
  ELSE <<originMs, originMs>>

\* the end of buildBurnupModel, from the sprint list on
ModelOf(inp, originMs, sprints) ==
  LET sprintLenDays == SprintLenDays(inp)
      targetDateMs == parseISODate(inp.devCompletionISO)
      todayMs == TodayMs(inp)
      latestScope == IF sprints # <<>> THEN sprints[Len(sprints)].scopeAtEnd ELSE 0
      targetScope == computeScopeAtDate(sprints, targetDateMs)
      totalDoneStories == IF sprints # <<>> THEN sprints[Len(sprints)].cumDoneEnd
                          ELSE 0
      current == CurrentSprint(originMs, todayMs, sprintLenDays)
  IN Let(computeProjection(sprints, sprintLenDays * DAY_MS, SafeFte(inp.sprintFTE),
                           latestScope, targetScope, targetDateMs),
         LAMBDA projection :
           [sprintLengthDays |-> sprintLenDays,
            originMs |-> originMs,
            targetDateMs |-> targetDateMs,
            targetScope |-> targetScope,
            latestScope |-> latestScope,
            todayMs |-> todayMs,
            currentSprintStartMs |-> current[1],
            currentSprintEndMs |-> current[2],
            sprints |-> sprints,
            projection |-> projection,
            totalDoneStories |-> totalDoneStories,
            hasAnyDone |-> totalDoneStories > 0,
            isOnTrack |-> Health(projection, targetDateMs)[1],
            daysDeltaFromTarget |-> Health(projection, targetDateMs)[2]])

\* buildBurnupModel, for an input on which it returns
buildBurnupModel(inp) ==
  IF ~IsFinite(parseISODate(inp.devCompletionISO))
  THEN emptyModel(SprintLenDays(inp), parseISODate(inp.sprintStartISO),
                  parseISODate(inp.devCompletionISO), TodayMs(inp))
  ELSE
    Let(NormaliseAll(inp.stories), LAMBDA stories :
      Let(OriginMs(stories, inp), LAMBDA originMs :
        Let(BuildSprints(stories, originMs.n, SprintLenDays(inp) * DAY_MS,
                         HorizonMs(stories, originMs, inp).n, TodayMs(inp),
                         0, 0, 0),
            LAMBDA sprints : ModelOf(inp, originMs, sprints))))

(***************************************************************************)
(* The velocity arithmetic of computeProjection in binary floating point.  *)
(* A double keeps 53 significant bits; at the scale of the model a number  *)
(* keeps MANTISSA_BITS, and the result of each division, addition and      *)
(* multiplication is rounded to the nearest such number, ties to even.     *)
(***************************************************************************)
MANTISSA_BITS == 6

RECURSIVE Pow2(_)
Pow2(k) == IF k <= 0 THEN 1 ELSE 2 * Pow2(k - 1)

\* n / d rounded to the nearest integer, ties to the even one (n >= 0, d > 0)
RoundHalfEven(n, d) ==
  LET q == n \div d
      r == n % d
  IN IF 2 * r > d \/ (2 * r = d /\ q % 2 = 1) THEN q + 1 ELSE q

\* the significand and the scale of n / d:
\* <<m, k>> with n / d ~ m / 2^k and m of MANTISSA_BITS bits
RECURSIVE Significand(_, _, _)
Significand(n, d, k) ==
  IF n < Pow2(MANTISSA_BITS - 1) * d THEN Significand(2 * n, d, k + 1)
  ELSE IF n >= Pow2(MANTISSA_BITS) * d THEN Significand(n, 2 * d, k - 1)
  ELSE <<RoundHalfEven(n, d), k>>

\* the floating-point number nearest to x
Fl(x) ==
  IF ~IsFinite(x) \/ x.n = 0 THEN x
  ELSE Let(Significand(Abs(x.n), x.d, 0), LAMBDA mk :
         IF mk[2] >= 0 THEN Rat(Sign(x.n) * mk[1], Pow2(mk[2]))
         ELSE R(Sign(x.n) * mk[1] * Pow2(-mk[2])))

\* nonZeroVelPerFTE.reduce((sum, v) => sum + v, 0)
RECURSIVE FlSum(_, _)
FlSum(q, sum) == IF q = <<>> THEN sum ELSE FlSum(Tail(q), Fl(RAdd(sum, Head(q))))

\* const fte = Math.max(0.1, ...): 0.1 is the double nearest to one tenth
FlFteFloor(sprintFTE) ==
  RMax(Fl(Rat(1, 10)), IF IsFinite(sprintFTE) THEN sprintFTE ELSE R(0))

\* mutant of DoubleVelocity: the velocity is divided by the floored FTE and
\* multiplied with the FTE as given
DoubleVelocity_UnflooredProduct(sprints, lastClosedIndex, sprintFTE) ==
  LET fte == FlFteFloor(sprintFTE)
      exact == VelScan(sprints, lastClosedIndex, 0, fte, <<>>)
      nonZeroVelPerFTE == [k \in 1..Len(exact) |-> Fl(exact[k])]
      avgVelPerFTE == Fl(RDiv(FlSum(nonZeroVelPerFTE, R(0)),
                              R(Len(nonZeroVelPerFTE))))
  IN <<avgVelPerFTE, Fl(RMul(avgVelPerFTE, sprintFTE))>>

\* <<avgVelPerFTE, projectedDonePerSprint>> of computeProjection for sprints
\* with a non-zero closed sprint in the look-back
DoubleVelocity(sprints, lastClosedIndex, sprintFTE) ==
  LET fte == FlFteFloor(sprintFTE)
      exact == VelScan(sprints, lastClosedIndex, 0, fte, <<>>)
      nonZeroVelPerFTE == [k \in 1..Len(exact) |-> Fl(exact[k])]
      avgVelPerFTE == Fl(RDiv(FlSum(nonZeroVelPerFTE, R(0)),
                              R(Len(nonZeroVelPerFTE))))
  IN <<avgVelPerFTE, Fl(RMul(avgVelPerFTE, fte))>>

\* the model with the velocity, and what is computed from it, in floating point
WithDoubleVelocity(m, sprintFTE) ==
  IF IsNull(m.projection.avgVelPerFTE) THEN m
  ELSE
  Let(DoubleVelocity(m.sprints, Val(m.projection.fromSprintIndex), sprintFTE),
      LAMBDA v :
  Let(RequiredFTE(v[1], sprintFTE,
                  IMax(0, m.targetScope - Val(m.projection.fromDone)),
                  m.targetDateMs, Val(m.projection.fromTimeMs),
                  m.sprintLengthDays * DAY_MS),
      LAMBDA req :
  Let(CompletionTimes(Val(m.projection.fromTimeMs),
                      IMax(0, m.latestScope - Val(m.projection.fromDone)),
                      v[2], m.sprintLengthDays * DAY_MS),
      LAMBDA t :
  Let([m.projection EXCEPT !.avgVelPerFTE = Some(v[1]),
                           !.requiredFTEToHitTarget = req[1],
                           !.suggestedMaxFTE = req[2],
                           !.projectedDonePerSprint = Some(v[2]),
                           !.projectedCompletionMs = Some(t[1]),
                           !.projectedCompletionEarlyMs = Some(t[2]),
                           !.projectedCompletionLateMs = Some(t[3])],
      LAMBDA projection :
        [m EXCEPT !.projection = projection,
                  !.isOnTrack = Health(projection, m.targetDateMs)[1],
                  !.daysDeltaFromTarget = Health(projection, m.targetDateMs)[2]]))))

\* buildBurnupModel with the velocity arithmetic in floating point
buildBurnupModelInDoubles(inp) ==
  WithDoubleVelocity(buildBurnupModel(inp), SafeFte(inp.sprintFTE))

(***************************************************************************)
(* Re-parameterizer.                                                       *)
(***************************************************************************)
\* mutant of RecomputeFte: the 0.1 floor forgotten
RecomputeFte_NoFloor(sprintFTE) == SafeFte(sprintFTE)

\* const fte = Math.max(0.1, safeFte || 0) of recomputeProjectionWithFTE
RecomputeFte(sprintFTE) == RMax(Rat(1, 10), SafeFte(sprintFTE))

\* the guard of recomputeProjectionWithFTE that returns the model as it is
RecomputeIsNoOp(m) ==
  \/ m.sprints = <<>>
  \/ ~m.projection.hasSignal
  \/ IsNull(m.projection.fromSprintIndex)
  \/ IsNull(m.projection.fromTimeMs)
  \/ IsNull(m.projection.fromDone)
  \/ IsNull(m.projection.avgVelPerFTE)
  \/ RLe(Val(m.projection.avgVelPerFTE), R(0))

\* the health fields of recomputeProjectionWithFTE
RecomputeHealth(projectedCompletionMs, targetDateMs) ==
  IF IsFinite(targetDateMs)
  THEN Let(Round(RDiv(RSub(projectedCompletionMs, targetDateMs), R(DAY_MS))),
           LAMBDA daysDelta :
             <<IF IsFinite(daysDelta) THEN Some(RLe(daysDelta, R(0))) ELSE Null,
               Some(daysDelta)>>)
  ELSE <<Null, Null>>

\* mutant of NewProjection: the spread of the old projection forgotten
NewProjection_NoSpread(projection, projectedDonePerSprint, t) ==
  [NoProjection EXCEPT !.hasSignal = TRUE,
                       !.projectedDonePerSprint = Some(projectedDonePerSprint),
                       !.projectedCompletionMs = Some(t[1]),
                       !.projectedCompletionEarlyMs = Some(t[2]),
                       !.projectedCompletionLateMs = Some(t[3])]

\* mutant of NewProjection: the optimistic date never moves later than the one
\* of the model it is given
NewProjection_EarliestEver(projection, projectedDonePerSprint, t) ==
  [projection EXCEPT
     !.hasSignal = TRUE,
     !.projectedDonePerSprint = Some(projectedDonePerSprint),
     !.projectedCompletionMs = Some(t[1]),
     !.projectedCompletionEarlyMs =
        IF IsNull(projection.projectedCompletionEarlyMs) THEN Some(t[2])
        ELSE Some(RMin(t[2], Val(projection.projectedCompletionEarlyMs))),
     !.projectedCompletionLateMs = Some(t[3])]

\* newProjection = {...projection, hasSignal: true, projectedDonePerSprint, ...}
NewProjection(projection, projectedDonePerSprint, t) ==
  [projection EXCEPT !.hasSignal = TRUE,
                     !.projectedDonePerSprint = Some(projectedDonePerSprint),
                     !.projectedCompletionMs = Some(t[1]),
                     !.projectedCompletionEarlyMs = Some(t[2]),
                     !.projectedCompletionLateMs = Some(t[3])]

\* recomputeProjectionWithFTE past its guard
Reprojected(m, sprintFTE) ==
  LET sprintLenMs == m.sprintLengthDays * DAY_MS
      fromTimeMs == Val(m.projection.fromTimeMs)
      fromDone == Val(m.projection.fromDone)
      avgVelPerFTE == Val(m.projection.avgVelPerFTE)
      fte == RecomputeFte(sprintFTE)
      projectedDonePerSprint == RMul(avgVelPerFTE, fte)
  IN IF RLe(projectedDonePerSprint, R(0))
     THEN [m EXCEPT !.projection.projectedDonePerSprint = Null,
                    !.projection.projectedCompletionMs = Null,
                    !.projection.projectedCompletionEarlyMs = Null,
                    !.projection.projectedCompletionLateMs = Null,
                    !.isOnTrack = Null,
                    !.daysDeltaFromTarget = Null]
     ELSE
       LET remaining == IMax(0, m.latestScope - fromDone)
       IN Let(CompletionTimes(fromTimeMs, remaining, projectedDonePerSprint,
                              sprintLenMs),
              LAMBDA t :
                [m EXCEPT
                   !.projection = NewProjection(m.projection,
                                                projectedDonePerSprint, t),
                   !.isOnTrack = RecomputeHealth(t[1], m.targetDateMs)[1],
                   !.daysDeltaFromTarget = RecomputeHealth(t[1], m.targetDateMs)[2]])

\* mutant of recomputeProjectionWithFTE: the guard returns a cleared projection
recompute_GuardClears(m, sprintFTE) ==
  IF RecomputeIsNoOp(m) THEN [m EXCEPT !.projection = NoProjection]
  ELSE Reprojected(m, sprintFTE)

recomputeProjectionWithFTE(m, sprintFTE) ==
  IF RecomputeIsNoOp(m) THEN m ELSE Reprojected(m, sprintFTE)

(***************************************************************************)
(* Dashboard: the velocity slider and the scope slider.                    *)
(***************************************************************************)
SliderBounds(lo, hi) == [min |-> lo, max |-> hi]

\* { min: defaultMin, max: defaultMax }
DefaultVelocityBounds == SliderBounds(5, 80)

\* getVelocitySliderBounds past its guards on the projection
VelocityBoundsFrom(m) ==
  LET remainingStories == IMax(0, m.latestScope - Val(m.projection.fromDone))
      sprintLenMs == m.sprintLengthDays * DAY_MS
      remainingTimeMs == RSub(m.targetDateMs, R(Val(m.projection.fromTimeMs)))
  IN IF remainingStories <= 0 \/ RLe(remainingTimeMs, R(0))
     THEN DefaultVelocityBounds
     ELSE
       LET sprintsRemaining == IMax(1, CeilInt(RDiv(remainingTimeMs, R(sprintLenMs))))
           requiredStoriesPerSprint == Rat(remainingStories, sprintsRemaining)
           recent == m.projection.recentStoriesPerSprint
           baseline == IF ~IsNull(recent) /\ RGt(Val(recent), R(0))
                       THEN Val(recent) ELSE requiredStoriesPerSprint
       IN IF ~IsFinite(baseline) THEN DefaultVelocityBounds
          ELSE
            LET lo == IMax(1, FloorInt(RMul(baseline, Rat(1, 2))))
                hi == IMax(CeilInt(RMul(requiredStoriesPerSprint, Rat(3, 2))),
                           CeilInt(RMul(baseline, R(2))))
            IN SliderBounds(lo, IMax(lo + 5, hi))

\* getVelocitySliderBounds(model)
getVelocitySliderBounds(m) ==
  IF \/ ~m.projection.hasSignal
     \/ IsNull(m.projection.fromTimeMs)
     \/ IsNull(m.projection.fromDone)
  THEN DefaultVelocityBounds
  ELSE IF ~IsFinite(m.targetDateMs) \/ m.sprintLengthDays <= 0
  THEN DefaultVelocityBounds
  ELSE VelocityBoundsFrom(m)

\* if (v < sliderMinVelocity) v = sliderMinVelocity;
\* if (v > sliderMaxVelocity) v = sliderMaxVelocity;
ClampVelocity(v, bounds) ==
  Let(IF RLt(v, R(bounds.min)) THEN R(bounds.min) ELSE v, LAMBDA w :
    IF RGt(w, R(bounds.max)) THEN R(bounds.max) ELSE w)

ScopeSliderOff == [enabled |-> FALSE, baselineScope |-> 0, min |-> 0, max |-> 0]

\* computeScopeSliderConfig(model)
computeScopeSliderConfig(m) ==
  IF m.sprints = <<>> THEN ScopeSliderOff
  ELSE
  LET lastClosedIndex == LastClosedFrom(m.sprints, Len(m.sprints) - 1)
  IN IF lastClosedIndex < 0 \/ lastClosedIndex = Len(m.sprints) - 1
     THEN ScopeSliderOff
     ELSE
       LET baselineScope == At(m.sprints, lastClosedIndex).scopeAtEnd
           safeBaseline == IF baselineScope > 0 THEN baselineScope ELSE 1
           span == IMax(50, RoundInt(Rat(safeBaseline, 2)))
       IN [enabled |-> TRUE, baselineScope |-> baselineScope,
           min |-> IMax(0, baselineScope - span), max |-> baselineScope + span]

\* the body of the loop over newSprints: sprint i (0-based) of the new sequence;
\* prevScopeAtEnd is newSprints[i - 1].scopeAtEnd, read only for the sprint
\* after the last closed one, whose predecessor is left as it was
AdjustedSprint(s, i, lastClosedIndex, nextIndex, prevScopeAtEnd, newScope) ==
  IF i <= lastClosedIndex THEN s
  ELSE IF i = nextIndex
  THEN [s EXCEPT !.scopeAtStart = prevScopeAtEnd, !.scopeAtEnd = newScope]
  ELSE [s EXCEPT !.scopeAtStart = newScope, !.scopeAtEnd = newScope]

\* buildScopeAdjustedModel(base, overrideScope)
buildScopeAdjustedModel(baseModel, overrideScope) ==
  IF baseModel.sprints = <<>> THEN baseModel
  ELSE
  LET sprints == baseModel.sprints
      lastClosedIndex == LastClosedFrom(sprints, Len(sprints) - 1)
  IN IF lastClosedIndex < 0 THEN baseModel
     ELSE
       LET newScope == IMax(0, RoundInt(overrideScope))
           nextIndex == IMin(lastClosedIndex + 1, Len(sprints) - 1)
           newSprints ==
             [k \in 1..Len(sprints) |->
                AdjustedSprint(sprints[k], k - 1, lastClosedIndex, nextIndex,
                               IF k >= 2 THEN sprints[k - 1].scopeAtEnd ELSE 0,
                               newScope)]
       IN [baseModel EXCEPT
             !.sprints = newSprints,
             !.latestScope = newSprints[Len(newSprints)].scopeAtEnd,
             !.targetScope = computeScopeAtDate(newSprints, baseModel.targetDateMs)]

\* displayBurnupModel: the model the chart shows
displayBurnupModel(m, override) ==
  IF ~computeScopeSliderConfig(m).enabled \/ IsNull(override) THEN m
  ELSE buildScopeAdjustedModel(m, Val(override))

\* the effect that keeps scopeOverride: null when the slider is off, the
\* baseline scope when it was null, else as it was
ScopeOverrideEffect(m, override) ==
  IF ~computeScopeSliderConfig(m).enabled THEN Null
  ELSE IF IsNull(override) THEN Some(R(computeScopeSliderConfig(m).baselineScope))
  ELSE override

\* the effect that clamps the velocity slider into the bounds of the model
VelocityClampEffect(m, v) == ClampVelocity(v, getVelocitySliderBounds(m))

\* the velocity Create Burnup starts from: required, else recent, else the slider
BaselineVelocity(proj, v) ==
  IF ~IsNull(proj.requiredStoriesPerSprintToHitTarget)
     /\ RGt(Val(proj.requiredStoriesPerSprintToHitTarget), R(0))
  THEN Val(proj.requiredStoriesPerSprintToHitTarget)
  ELSE IF ~IsNull(proj.recentStoriesPerSprint)
          /\ RGt(Val(proj.recentStoriesPerSprint), R(0))
  THEN Val(proj.recentStoriesPerSprint)
  ELSE v

\* proj.hasSignal && proj.avgVelPerFTE != null && proj.avgVelPerFTE > 0
HasVelocity(m) ==
  /\ m.projection.hasSignal
  /\ ~IsNull(m.projection.avgVelPerFTE)
  /\ RGt(Val(m.projection.avgVelPerFTE), R(0))

\* const fteForVelocity = v / avgVelPerFTE
FteForVelocity(v, avgVelPerFTE) == RDiv(v, avgVelPerFTE)

\* the input of buildBurnupModel in onClickCreateBurnup; todayISO() is the
\* date of the clock, taken in UTC
CreateBurnupInput(inp) ==
  [stories |-> inp.stories,
   sprintStartISO |-> IF inp.sprintStartISO.kind = "absent"
                      THEN [kind |-> "ok", day |-> inp.now \div DAY_MS]
                      ELSE inp.sprintStartISO,
   devCompletionISO |-> inp.devCompletionISO,
   sprintFTE |-> R(1),
   todayISO |-> [kind |-> "absent", day |-> 0],
   now |-> inp.now,
   sprintLengthDays |-> Null]

(***************************************************************************)
(* Inputs.                                                                 *)
(***************************************************************************)
Str_Done == <<"D", "o", "n", "e">>
Str_done == <<"d", "o", "n", "e">>
Str_Withdrawn == <<" ", "W", "i", "t", "h", "d", "r", "a", "w", "n", " ">>
Str_cancelled == <<"c", "a", "n", "c", "e", "l", "l", "e", "d">>

Issue(c, r, cat, st) ==
  [created |-> c, resolutiondate |-> r, statusCategory |-> cat, status |-> st]

\* Raw issues of the general specification.  Epoch day 11 (tick 22) is
\* Monday 1970-01-12; an odd tick is a time of day inside its day.
IssuePool ==
  << Issue(<<23>>, <<>>, "To Do", <<>>),               \* open
     Issue(<<22>>, <<25>>, "Done", Str_Done),          \* done on day 12
     Issue(<<29>>, <<24>>, "Done", <<>>),              \* resolved before created
     Issue(<<26>>, <<35>>, "Done", <<>>),              \* resolved on day 17
     Issue(<<22>>, <<25>>, "Done", Str_Withdrawn),     \* cancelled, category Done
     Issue(<<24>>, <<>>, "To Do", Str_cancelled),      \* cancelled, open
     Issue(<<22>>, <<27>>, "In Progress", Str_done),   \* done by status text
     Issue(<<>>, <<25>>, "Done", Str_Done),            \* no creation date
     Issue(<<26>>, <<>>, "Done", <<>>),                \* category Done, no date
     Issue(<<>>, <<>>, "To Do", Str_cancelled) >>      \* no creation date, open

\* the members of pool with indexes in S, in pool order
RECURSIVE Pick(_, _, _)
Pick(pool, S, k) ==
  IF k > Len(pool) THEN <<>>
  ELSE (IF k \in S THEN <<pool[k]>> ELSE <<>>) \o Pick(pool, S, k + 1)

IssueLists ==
  {Pick(IssuePool, S, 1) :
     S \in {T \in SUBSET (1..Len(IssuePool)) : Cardinality(T) <= MaxIssues}}

Day(d) == [kind |-> "ok", day |-> d]
BadISO == [kind |-> "bad", day |-> 0]
AbsentISO == [kind |-> "absent", day |-> 0]

\* a finite FTE of the order of Number.MAX_VALUE / 2
HugeFte == R(MAX_VALUE \div 2)

\* sprintFTE values: NaN, infinite, negative, zero, below the 0.1 floor,
\* ordinary, and huge
FteValues == {NaN, Infinity, R(-1), R(0), Rat(1, 20), R(1), R(2), HugeFte}

Input(stories, start, target, fte, today, now, len) ==
  [stories |-> stories, sprintStartISO |-> start, devCompletionISO |-> target,
   sprintFTE |-> fte, todayISO |-> today, now |-> now, sprintLengthDays |-> len]

\* every issue list under ordinary dates
CoreInputs ==
  {Input(st, Day(10), tg, R(1), td, 0, len) :
     st \in IssueLists, tg \in {Day(12), Day(18)}, td \in {Day(13), Day(16)},
     len \in {<<1>>, <<2>>}}

\* every issue list under every FTE
FteInputs ==
  {Input(st, Day(10), Day(18), f, Day(16), 0, <<1>>) :
     st \in IssueLists, f \in FteValues}

\* a missing or malformed start or today under a valid target, the ambient
\* clock, the default sprint length
EdgeInputs ==
  {Input(st, start, Day(18), R(1), td, 29, len) :
     st \in IssueLists, start \in {Day(14), BadISO},
     td \in {AbsentISO, BadISO}, len \in {<<1>>, <<>>}}

\* a missing or malformed target date: every issue list under every FTE, and
\* under every kind of start and today
TargetInputs ==
  {Input(st, BadISO, AbsentISO, f, Day(16), 29, <<1>>) :
     st \in IssueLists, f \in FteValues}
  \cup
  {Input(st, start, tg, R(2), td, 29, len) :
     st \in IssueLists, start \in {Day(14), BadISO}, tg \in {BadISO, AbsentISO},
     td \in {Day(16), AbsentISO, BadISO}, len \in {<<1>>, <<>>}}

\* a target a third of a three-day sprint after the last closed sprint, under an
\* ordinary and a huge FTE
TightInputs ==
  {Input(st, Day(10), Day(15), f, Day(14), 0, <<3>>) :
     st \in IssueLists, f \in {R(1), HugeFte}}

\* every issue list under a parseable and a malformed start, target and today
StartInputs ==
  {Input(st, start, tg, R(1), td, 29, <<1>>) :
     st \in IssueLists, start \in {Day(10), BadISO}, tg \in {Day(18), BadISO},
     td \in {Day(16), BadISO}}

\* every issue list under FTE values that are floating-point numbers of
\* MANTISSA_BITS bits
DoubleFtes == {R(0), Rat(1, 2), R(1), R(2), R(3), R(13)}
DoubleInputs ==
  {Input(st, Day(10), Day(18), f, Day(16), 0, <<1>>) :
     st \in IssueLists, f \in DoubleFtes}

Inputs == CoreInputs \cup FteInputs \cup EdgeInputs \cup TargetInputs \cup TightInputs

(***************************************************************************)
(* Inputs of the signal specification: one issue with every combination of *)
(* creation day (1970-01-01 or a later day), resolution date (none,        *)
(* 1970-01-01, a later day), status category and status text, alone or     *)
(* with a later done issue.                                                *)
(***************************************************************************)
Str_done_padded == <<" ", "d", "o", "n", "e", " ">>
Str_done_late == <<"d", "o", "n", "e", " ", "l", "a", "t", "e">>
Str_Donee == <<"D", "o", "n", "e", "e">>
Str_done_cancelled ==
  <<"d", "o", "n", "e", " ", "c", "a", "n", "c", "e", "l", "l", "e", "d">>

SignalTexts ==
  {<<>>, Str_Done, Str_done_padded, Str_done_late, Str_Donee, Str_Withdrawn,
   Str_done_cancelled}

SignalIssues ==
  {Issue(c, r, cat, st) :
     c \in {<<1>>, <<22>>}, r \in {<<>>, <<1>>, <<25>>}, cat \in {"Done", "To Do"},
     st \in SignalTexts}

SignalInputs ==
  {Input(<<i>> \o co, Day(10), Day(18), R(1), Day(16), 0, <<1>>) :
     i \in SignalIssues,
     co \in {<<>>, <<Issue(<<26>>, <<35>>, "Done", <<>>)>>}}

(***************************************************************************)
(* Inputs of the origin specification: one done issue resolved at any time *)
(* of the eight days Thursday 2025-01-16 (epoch day 20104) to Thursday     *)
(* 2025-01-23, alone or with a later done issue or an earlier cancelled    *)
(* one, under every sprint length.                                         *)
(***************************************************************************)
Jan16_2025 == 20089 + 15
Jan20_2025 == 20089 + 19

OriginCompanions ==
  { <<>>,
    <<Issue(<<(Jan16_2025 - 2) * DAY_MS>>, <<(Jan16_2025 + 9) * DAY_MS + 1>>,
            "Done", <<>>)>>,
    <<Issue(<<(Jan16_2025 - 2) * DAY_MS>>, <<(Jan16_2025 - 1) * DAY_MS>>,
            "Done", Str_Withdrawn)>> }

OriginInputs ==
  {Input(<<Issue(<<(Jan16_2025 - 3) * DAY_MS + 1>>, <<r>>, "Done", <<>>)>> \o co,
         Day(Jan16_2025 + 3), Day(Jan16_2025 + 14), R(1), Day(Jan16_2025 + 10),
         0, len) :
     r \in (Jan16_2025 * DAY_MS)..((Jan16_2025 + 8) * DAY_MS - 1),
     co \in OriginCompanions,
     len \in {<<>>} \cup {<<l>> : l \in 1..MaxSprintLen}}

(***************************************************************************)
(* Inputs of the history specification: count[j] issues are resolved in    *)
(* the j-th sprint from the one of the first resolution day on, so that    *)
(* the closed sprints carry a chosen profile of completions.               *)
(***************************************************************************)
ProfileCounts == {0, 4, 6}

RECURSIVE Repeat(_, _)
Repeat(x, n) == IF n <= 0 THEN <<>> ELSE <<x>> \o Repeat(x, n - 1)

RECURSIVE ProfileStories(_, _, _, _)
ProfileStories(profile, j, firstDay, lenDays) ==
  IF j > Len(profile) THEN <<>>
  ELSE Repeat(Issue(<<(firstDay - 3) * DAY_MS>>,
                    <<(firstDay + (j - 1) * lenDays) * DAY_MS>>, "Done", Str_Done),
              profile[j])
       \o ProfileStories(profile, j + 1, firstDay, lenDays)

Profiles ==
  UNION {[1..n -> ProfileCounts] : n \in 0..MaxProfile}

\* <<sprint length in days, first resolution day, first sprint start, closed sprints>>:
\* day 13 is Wednesday 1970-01-14 (origin Tuesday, day 12); day 17 is a Sunday
\* (7-day sprints from Monday, day 11)
ProfileShapes ==
  {<<1, 13, 12, k>> : k \in {1, 4, 11, 12}} \cup {<<7, 17, 11, 3>>}

ProfileInputs ==
  {Input(ProfileStories(pr, 1, sh[2], sh[1])
           \o Repeat(Issue(<<(sh[2] - 3) * DAY_MS>>, <<>>, "To Do", <<>>), extra),
         BadISO, Day(sh[3] + sh[4] * sh[1] + 3), f,
         Day(sh[3] + sh[4] * sh[1]), 0, <<sh[1]>>) :
     pr \in Profiles, sh \in ProfileShapes, f \in {R(2), Rat(1, 20)},
     extra \in {0, 1}}

(***************************************************************************)
(* Inputs of the dashboard specification: 14-day sprints from Monday       *)
(* 1970-01-05 (epoch day 4); count[j] issues are resolved on the first day *)
(* of sprint j + 1, the clock stands three days after the end of the last  *)
(* of these sprints and the target twenty days later.  Create Burnup is    *)
(* refused without issues or without a target.                             *)
(***************************************************************************)
DashCounts == {0, 1, 12}
DashProfiles == UNION {[1..n -> DashCounts] : n \in 1..3}
DashToday(pr) == 4 + 14 * (Len(pr) + 1) + 3

DashInputs ==
  {Input(ProfileStories(pr, 1, 18, 14)
           \o Repeat(Issue(<<15 * DAY_MS>>, <<>>, "To Do", <<>>), extra),
         AbsentISO, Day(DashToday(pr) + 20), R(1), AbsentISO,
         DashToday(pr) * DAY_MS + 1, <<>>) :
     pr \in DashProfiles, extra \in {0, 1}}
  \cup {Input(<<>>, AbsentISO, Day(60), R(1), AbsentISO, 81, <<>>),
        Input(<<Issue(<<30>>, <<36>>, "Done", <<>>)>>, AbsentISO, AbsentISO,
              R(1), AbsentISO, 81, <<>>)}

\* the values the velocity slider is dragged to (steps of 0.1)
SliderNexts == {R(0), R(1), Rat(3, 2), R(2), R(6), R(100)}

\* the values the scope slider is dragged to: the ends of its range and the
\* values around the baseline scope
ScopeNexts(cfg) ==
  {cfg.min, cfg.min + 1, cfg.baselineScope - 1, cfg.baselineScope,
   cfg.baselineScope + 1, cfg.max} \cap (cfg.min..cfg.max)

(***************************************************************************)
(* State machine: one build of a model, then any number of velocity/FTE    *)
(* slider changes, each a recomputeProjectionWithFTE of the current model. *)
(* base keeps the model as built, prev the model given to the last         *)
(* recomputeProjectionWithFTE, fteArg its FTE argument.                    *)
(* sliderVelocity is the dashboard's velocity slider (useState(10)) and    *)
(* scopeOverride its scope slider (null until a burn-up with an open       *)
(* sprint is shown); only the dashboard's handlers change them.            *)
(***************************************************************************)
NoModel == emptyModel(0, NaN, NaN, NaN)

InitWith(S) ==
  /\ input \in S
  /\ model = NoModel
  /\ prev = NoModel
  /\ fteArg = NaN
  /\ base = NoModel
  /\ sliderVelocity = R(10)
  /\ scopeOverride = Null
  /\ pc = "input"

Init == InitWith(Inputs)

\* buildBurnupModel(input)
Build ==
  /\ pc = "input"
  /\ IF BuildDiverges(input)
     THEN /\ pc' = "diverged"
          /\ UNCHANGED <<model, base>>
     ELSE /\ pc' = "built"
          /\ model' = buildBurnupModel(input)
          /\ base' = model'
  /\ UNCHANGED <<input, prev, fteArg, sliderVelocity, scopeOverride>>

\* model := recomputeProjectionWithFTE(model, f)
Recompute ==
  /\ pc \in {"built", "recomputed"}
  /\ \E f \in FteValues :
       /\ fteArg' = f
       /\ model' = recomputeProjectionWithFTE(model, f)
  /\ prev' = model
  /\ pc' = "recomputed"
  /\ UNCHANGED <<input, base, sliderVelocity, scopeOverride>>

Next == Build \/ Recompute

Spec == Init /\ [][Next]_vars

\* the builds of the origin inputs
OriginInit == InitWith(OriginInputs)
OriginNext == Build
OriginSpec == OriginInit /\ [][OriginNext]_vars

\* the builds under every kind of start, target and today
StartInit == InitWith(StartInputs)
StartNext == Build
StartSpec == StartInit /\ [][StartNext]_vars

\* the builds of the done-signal inputs
SignalInit == InitWith(SignalInputs)
SignalNext == Build
SignalSpec == SignalInit /\ [][SignalNext]_vars

\* buildBurnupModel(input), its velocity arithmetic in floating point
BuildInDoubles ==
  /\ pc = "input"
  /\ IF BuildDiverges(input)
     THEN /\ pc' = "diverged"
          /\ UNCHANGED <<model, base>>
     ELSE /\ pc' = "built"
          /\ model' = buildBurnupModelInDoubles(input)
          /\ base' = model'
  /\ UNCHANGED <<input, prev, fteArg, sliderVelocity, scopeOverride>>

\* the builds in floating point under every FTE
DoubleInit == InitWith(DoubleInputs)
DoubleNext == BuildInDoubles
DoubleSpec == DoubleInit /\ [][DoubleNext]_vars

\* builds and slider changes over the sprint histories
ProfileInit == InitWith(ProfileInputs)
ProfileNext == Build \/ Recompute
ProfileSpec == ProfileInit /\ [][ProfileNext]_vars

\* onClickCreateBurnup with the effects of the render that follows it.  The
\* scope selector and the story counters of the KPI queries are taken to let
\* the handler pass; the sprint plan dates it sets are not kept.
onClickCreateBurnup ==
  /\ pc = "input"
  /\ IF input.stories = <<>> \/ input.devCompletionISO.kind = "absent"
     THEN /\ pc' = "refused"
          /\ UNCHANGED <<model, base, prev, fteArg, sliderVelocity, scopeOverride>>
     ELSE IF BuildDiverges(CreateBurnupInput(input))
     THEN /\ pc' = "diverged"
          /\ UNCHANGED <<model, base, prev, fteArg, sliderVelocity, scopeOverride>>
     ELSE \E baseModel \in {buildBurnupModel(CreateBurnupInput(input))} :
          \E baselineVelocity \in {BaselineVelocity(baseModel.projection, sliderVelocity)} :
          \E adjustedModel \in
               {IF HasVelocity(baseModel)
                THEN recomputeProjectionWithFTE(
                       baseModel,
                       RDiv(baselineVelocity, Val(baseModel.projection.avgVelPerFTE)))
                ELSE baseModel} :
            /\ pc' = "created"
            /\ base' = baseModel
            /\ model' = adjustedModel
            /\ IF HasVelocity(baseModel)
               THEN /\ prev' = baseModel
                    /\ fteArg' = RDiv(baselineVelocity,
                                      Val(baseModel.projection.avgVelPerFTE))
                    /\ sliderVelocity' = VelocityClampEffect(adjustedModel,
                                                             baselineVelocity)
               ELSE /\ UNCHANGED <<prev, fteArg>>
                    /\ sliderVelocity' = VelocityClampEffect(adjustedModel,
                                                             sliderVelocity)
            /\ scopeOverride' = ScopeOverrideEffect(adjustedModel, scopeOverride)
  /\ UNCHANGED input

\* onChangeFTE(next) with the effects of the render that follows it
onChangeFTE ==
  /\ pc \in {"created", "changed"}
  /\ \E next \in SliderNexts :
     \E v \in {ClampVelocity(next, getVelocitySliderBounds(model))} :
     \E newModel \in
          {IF HasVelocity(model)
           THEN recomputeProjectionWithFTE(
                  model, FteForVelocity(v, Val(model.projection.avgVelPerFTE)))
           ELSE model} :
       /\ model' = newModel
       /\ IF HasVelocity(model)
          THEN /\ prev' = model
               /\ fteArg' = FteForVelocity(v, Val(model.projection.avgVelPerFTE))
          ELSE UNCHANGED <<prev, fteArg>>
       /\ sliderVelocity' = VelocityClampEffect(newModel, v)
       /\ scopeOverride' = ScopeOverrideEffect(newModel, scopeOverride)
  /\ pc' = "changed"
  /\ UNCHANGED <<input, base>>

\* the scope slider: setScopeOverride(Number(e.target.value)), a whole number
\* of [scopeSliderConfig.min, scopeSliderConfig.max]
onChangeScope ==
  /\ pc \in {"created", "changed"}
  /\ \E cfg \in {computeScopeSliderConfig(model)} :
       /\ cfg.enabled
       /\ \E o \in ScopeNexts(cfg) : scopeOverride' = Some(R(o))
  /\ UNCHANGED <<input, model, pc, prev, fteArg, base, sliderVelocity>>

\* Create Burnup, then the two sliders in any order
DashInit == InitWith(DashInputs)
DashNext == onClickCreateBurnup \/ onChangeFTE \/ onChangeScope
DashSpec == DashInit /\ [][DashNext]_vars

(***************************************************************************)
(* Properties.                                                             *)
(***************************************************************************)
\* a model has been returned for a valid target date
Returned == pc \in {"built", "recomputed"}
ValidTarget == input.devCompletionISO.kind = "ok"
NSprints == Len(model.sprints)

\* C1: in every returned model (valid target date), for every sprint i,
\* cumDoneEnd[i] <= scopeAtEnd[i], and from the second sprint on neither
\* cumDoneEnd nor scopeAtEnd is smaller than in the sprint before.
C1_SprintInvariants ==
  (Returned /\ ValidTarget) =>
    \A i \in 1..NSprints :
      /\ model.sprints[i].cumDoneEnd <= model.sprints[i].scopeAtEnd
      /\ i >= 2 =>
           /\ model.sprints[i].cumDoneEnd >= model.sprints[i - 1].cumDoneEnd
           /\ model.sprints[i].scopeAtEnd >= model.sprints[i - 1].scopeAtEnd

\* the issue resolved before it was created, and the one resolved after today
ResolvedBeforeCreated(issue) ==
  ~IsNull(issue.created) /\ ~IsNull(issue.resolutiondate)
  /\ Val(issue.resolutiondate) < Val(issue.created)

\* C1 witness: a model built from an issue resolved before its creation and
\* counted as done, whose cumulative series grows from one sprint to the next
C1_Witness ==
  /\ pc = "built" /\ ValidTarget
  /\ \E k \in 1..Len(input.stories) : ResolvedBeforeCreated(input.stories[k])
  /\ \E i \in 2..NSprints :
       /\ model.sprints[i].cumDoneEnd > model.sprints[i - 1].cumDoneEnd
       /\ model.sprints[i].scopeAtEnd > model.sprints[i - 1].scopeAtEnd

\* The status texts of the explored issues that contain WITHDRAWN or CANCELLED
\* (whatever the case, after trimming), listed by hand.
CancelledTexts == {Str_Withdrawn, Str_cancelled}
\* The status texts that are DONE after trimming and upper-casing, by hand.
DoneTexts == {Str_Done, Str_done}

\* raw issues with a creation date before endMs that are not cancelled
LiveBefore(endMs) ==
  {k \in 1..Len(input.stories) :
     /\ input.stories[k].status \notin CancelledTexts
     /\ ~IsNull(input.stories[k].created)
     /\ Val(input.stories[k].created) < endMs}
\* ... and carry a done signal
LiveDoneBefore(endMs) ==
  {k \in LiveBefore(endMs) :
     \/ input.stories[k].statusCategory = "Done"
     \/ input.stories[k].status \in DoneTexts}

AllCancelled ==
  \A k \in 1..Len(input.stories) : input.stories[k].status \in CancelledTexts

\* C2: a cancelled issue is counted in no sprint's scopeAtEnd, scopeAtStart,
\* cumDoneEnd or doneThisSprint, nor in latestScope, targetScope or
\* totalDoneStories: every scope is the number of non-cancelled issues created
\* before the window's end, every done count is at most the number of those
\* with a done signal; if every issue is cancelled all counts are 0 and
\* hasAnyDone and projection.hasSignal are false.
C2_CancelledExcluded ==
  (pc = "built" /\ ValidTarget) =>
    /\ \A i \in 1..NSprints :
         LET sp == model.sprints[i]
         IN /\ sp.scopeAtEnd = Cardinality(LiveBefore(sp.endMs))
            /\ sp.scopeAtStart <= Cardinality(LiveBefore(sp.startMs))
            /\ sp.cumDoneEnd <= Cardinality(LiveDoneBefore(sp.endMs))
            /\ sp.doneThisSprint <= Cardinality(LiveDoneBefore(sp.endMs))
    /\ NSprints > 0 =>
         /\ model.latestScope <= Cardinality(LiveBefore(model.sprints[NSprints].endMs))
         /\ model.targetScope <= Cardinality(LiveBefore(model.sprints[NSprints].endMs))
         /\ model.totalDoneStories
              <= Cardinality(LiveDoneBefore(model.sprints[NSprints].endMs))
    /\ AllCancelled =>
         /\ \A i \in 1..NSprints :
              /\ model.sprints[i].scopeAtEnd = 0
              /\ model.sprints[i].scopeAtStart = 0
              /\ model.sprints[i].cumDoneEnd = 0
              /\ model.sprints[i].doneThisSprint = 0
         /\ model.latestScope = 0 /\ model.targetScope = 0
         /\ model.totalDoneStories = 0
         /\ ~model.hasAnyDone
         /\ ~model.projection.hasSignal

\* C2 witness: a withdrawn issue of category Done lies inside the window of a
\* sprint that counts a live issue but not the withdrawn one
C2_Witness ==
  /\ pc = "built" /\ ValidTarget
  /\ \E k \in 1..Len(input.stories), i \in 1..NSprints :
       /\ input.stories[k].status = Str_Withdrawn
       /\ input.stories[k].statusCategory = "Done"
       /\ model.sprints[i].startMs <= Val(input.stories[k].created)
       /\ Val(input.stories[k].created) < model.sprints[i].endMs
       /\ model.sprints[i].scopeAtEnd = 1
       /\ model.sprints[i].cumDoneEnd = 0

\* raw issues that are done and not cancelled: category Done or a DONE text, a
\* resolution date, and no cancelled text (the explored issues all have a
\* creation date when they have a resolution date of their own)
RawDone ==
  {k \in 1..Len(input.stories) :
     /\ ~IsNull(input.stories[k].created)
     /\ ~IsNull(input.stories[k].resolutiondate)
     /\ input.stories[k].status \notin CancelledTexts
     /\ (input.stories[k].statusCategory = "Done"
         \/ input.stories[k].status \in DoneTexts)}
\* the UTC day of the earliest done resolution
EarliestDoneDay ==
  SetMin({Val(input.stories[k].resolutiondate) \div DAY_MS : k \in RawDone})
\* Monday to Friday, counted from Monday 2025-01-20
IsMonToFri(day) == ((day - Jan20_2025) % 7) \in 0..4
InputSprintLen ==
  IF input.sprintLengthDays = <<>> THEN 14 ELSE input.sprintLengthDays[1]
\* max(1, round(len * 5 / 7)): the integer n >= 1 with n - 1/2 <= 5 len / 7 < n + 1/2
RoundedWorkingDays(len) ==
  CHOOSE n \in 1..(len + 1) : 14 * n - 7 <= 10 * len /\ 10 * len < 14 * n + 7
OriginDay == model.originMs.n \div DAY_MS

\* C3: with a done, non-cancelled issue, originMs is a Monday-Friday UTC day
\* strictly before the earliest done day, with exactly
\* N = max(1, round(sprintLengthDays * 5 / 7)) Monday-Friday days in
\* [originMs, earliest done day); 14-day sprints and Monday 2025-01-20 give
\* Monday 2025-01-06.
C3_OriginWorkingDays ==
  (pc = "built" /\ ValidTarget /\ RawDone # {}) =>
    /\ model.originMs = R(OriginDay * DAY_MS)
    /\ IsMonToFri(OriginDay)
    /\ OriginDay < EarliestDoneDay
    /\ Cardinality({d \in OriginDay..(EarliestDoneDay - 1) : IsMonToFri(d)})
         = RoundedWorkingDays(InputSprintLen)
    /\ (InputSprintLen = 14 /\ EarliestDoneDay = Jan20_2025)
         => OriginDay = Jan20_2025 - 14

\* C3 witness: 14-day sprints, earliest completion on Monday 2025-01-20
\* (during the day), origin Monday 2025-01-06
C3_Witness ==
  /\ pc = "built" /\ RawDone # {}
  /\ input.sprintLengthDays = <<14>>
  /\ \E k \in RawDone :
       Val(input.stories[k].resolutiondate) = Jan20_2025 * DAY_MS + 1
  /\ EarliestDoneDay = Jan20_2025
  /\ model.originMs = R((Jan20_2025 - 14) * DAY_MS)

\* the closed sprints at or before the anchor, and the 8 most recent of them
Anchor == Val(model.projection.fromSprintIndex)
ClosedUpToAnchor ==
  {i \in 1..NSprints : model.sprints[i].isClosed /\ model.sprints[i].index <= Anchor}
LookbackWindow ==
  {i \in ClosedUpToAnchor :
     Cardinality({j \in ClosedUpToAnchor : j > i}) < 8}
NonZeroInWindow == {i \in LookbackWindow : model.sprints[i].doneThisSprint > 0}
\* the samples: the (at most) 2 most recent non-zero sprints of the window
Samples ==
  {i \in NonZeroInWindow : Cardinality({j \in NonZeroInWindow : j > i}) < 2}
RECURSIVE SumDone(_)
SumDone(S) ==
  IF S = {} THEN 0
  ELSE LET i == CHOOSE j \in S : TRUE
       IN model.sprints[i].doneThisSprint + SumDone(S \ {i})
\* fte = max(0.1, sprintFTE) of the input (0 for a negative or non-finite FTE)
InputFte ==
  IF input.sprintFTE.d = 0 \/ input.sprintFTE.n * 10 < input.sprintFTE.d
  THEN Rat(1, 10) ELSE input.sprintFTE
\* doneThisSprint of the closed sprints, oldest first
RECURSIVE ClosedDoneFrom(_)
ClosedDoneFrom(i) ==
  IF i > NSprints THEN <<>>
  ELSE (IF model.sprints[i].isClosed THEN <<model.sprints[i].doneThisSprint>>
        ELSE <<>>) \o ClosedDoneFrom(i + 1)
HasAnchor == ~IsNull(model.projection.fromSprintIndex)

\* C4: with an anchor, avgVelPerFTE is the mean of doneThisSprint / fte over
\* the 2 most recent non-zero sprints among the 8 most recent closed sprints
\* (1 sample if there is only one), fte = max(0.1, sprintFTE), and
\* projectedDonePerSprint is that mean times fte; [4, 0, 6] at FTE 2 give 2.5
\* and 5.
C4_VelocitySignal ==
  (pc = "built" /\ ValidTarget /\ HasAnchor /\ NonZeroInWindow # {}) =>
    /\ Cardinality(Samples) \in {1, 2}
    /\ ~IsNull(model.projection.avgVelPerFTE)
    /\ RMul(Val(model.projection.avgVelPerFTE),
            RMul(R(Cardinality(Samples)), InputFte)) = R(SumDone(Samples))
    /\ model.projection.projectedDonePerSprint
         = Some(Rat(SumDone(Samples), Cardinality(Samples)))
    /\ (ClosedDoneFrom(1) = <<4, 0, 6>> /\ input.sprintFTE = R(2)) =>
         /\ model.projection.avgVelPerFTE = Some(Rat(5, 2))
         /\ model.projection.projectedDonePerSprint = Some(R(5))

\* C4 witness: closed sprints with doneThisSprint [4, 0, 6] at FTE 2
C4_Witness ==
  /\ pc = "built" /\ HasAnchor
  /\ ClosedDoneFrom(1) = <<4, 0, 6>>
  /\ input.sprintFTE = R(2)
  /\ model.projection.avgVelPerFTE = Some(Rat(5, 2))

\* C5: an anchor but no completion in the 8 most recent closed sprints gives
\* hasSignal = false with the anchor fields, remainingStoriesFromAnchor and
\* recentStoriesPerSprint populated and the velocity, forecast and required
\* FTE fields null, whether or not older sprints had completions.
C5_NoSignalInLookback ==
  (pc = "built" /\ ValidTarget /\ ClosedDoneFrom(1) # <<>>
     /\ (HasAnchor => NonZeroInWindow = {})) =>
    /\ HasAnchor
    /\ ~model.projection.hasSignal
    /\ ~IsNull(model.projection.fromTimeMs)
    /\ ~IsNull(model.projection.fromDone)
    /\ ~IsNull(model.projection.remainingStoriesFromAnchor)
    /\ ~IsNull(model.projection.recentStoriesPerSprint)
    /\ IsNull(model.projection.avgVelPerFTE)
    /\ IsNull(model.projection.projectedDonePerSprint)
    /\ IsNull(model.projection.projectedCompletionMs)
    /\ IsNull(model.projection.projectedCompletionEarlyMs)
    /\ IsNull(model.projection.projectedCompletionLateMs)
    /\ IsNull(model.projection.requiredFTEToHitTarget)
    /\ IsNull(model.projection.suggestedMaxFTE)

\* C5 witness: completions exist, but all are older than the 8 most recent
\* closed sprints
C5_Witness ==
  /\ pc = "built" /\ HasAnchor
  /\ model.hasAnyDone
  /\ Cardinality(ClosedUpToAnchor) > 8
  /\ NonZeroInWindow = {}
  /\ ~model.projection.hasSignal
  /\ model.projection.fromDone = Some(model.totalDoneStories)

\* C5 witness of the single case: exactly one closed sprint, without completions
C5_OneClosedSprint ==
  /\ pc = "built" /\ HasAnchor
  /\ ClosedDoneFrom(1) = <<0>>
  /\ ~model.projection.hasSignal

\* remaining = max(0, latestScope - fromDone) of a model with an anchor
Remaining(m) ==
  IF m.latestScope > Val(m.projection.fromDone)
  THEN m.latestScope - Val(m.projection.fromDone) ELSE 0
\* the three projected completion timestamps
Timestamps(m) ==
  <<m.projection.projectedCompletionMs, m.projection.projectedCompletionEarlyMs,
    m.projection.projectedCompletionLateMs>>
AtAnchor(m) ==
  /\ Timestamps(m) = <<Some(R(Val(m.projection.fromTimeMs))),
                       Some(R(Val(m.projection.fromTimeMs))),
                       Some(R(Val(m.projection.fromTimeMs)))>>
  /\ m.isOnTrack = Some(Val(m.projection.fromTimeMs) <= m.targetDateMs.n)

\* C6 as claimed: whenever an anchor exists and remaining is 0, the three
\* projected completion timestamps equal fromTimeMs and isOnTrack is
\* (fromTimeMs <= targetDateMs).
C6_Original ==
  (Returned /\ ValidTarget /\ HasAnchor /\ Remaining(model) = 0) => AtAnchor(model)

\* C6 amended: whenever an anchor exists, projection.hasSignal is true and
\* remaining is 0, the three projected completion timestamps equal fromTimeMs
\* and isOnTrack is (fromTimeMs <= targetDateMs).
C6_AnchorComplete ==
  (Returned /\ ValidTarget /\ HasAnchor /\ model.projection.hasSignal
     /\ Remaining(model) = 0) => AtAnchor(model)

\* C6 witness: everything was delivered by the anchor, which lies after the target
C6_Witness ==
  /\ pc = "built" /\ HasAnchor /\ model.projection.hasSignal
  /\ model.latestScope > 0
  /\ Remaining(model) = 0
  /\ model.projection.projectedCompletionMs = Some(R(Val(model.projection.fromTimeMs)))
  /\ model.isOnTrack = Some(FALSE)

\* the forecast fields of a model
Forecast(m) ==
  <<m.projection.projectedDonePerSprint, m.projection.projectedCompletionMs,
    m.projection.projectedCompletionEarlyMs, m.projection.projectedCompletionLateMs,
    m.isOnTrack, m.daysDeltaFromTarget>>
\* the last step re-parameterized the model as built from the input
FirstSlide == pc = "recomputed" /\ prev = base

\* C7: re-parameterizing a built model with the FTE it was built with leaves
\* projectedDonePerSprint, the three timestamps, isOnTrack and
\* daysDeltaFromTarget as built, for every FTE value.
C7_SameFteIdempotent ==
  (FirstSlide /\ fteArg = input.sprintFTE) => Forecast(model) = Forecast(prev)

\* C7 witness: a model with a forecast built with an FTE below the 0.1 floor
\* and re-parameterized with it
C7_Witness ==
  /\ FirstSlide /\ fteArg = input.sprintFTE
  /\ fteArg = Rat(1, 20)
  /\ model.projection.hasSignal
  /\ Remaining(model) > 0
  /\ ~IsNull(model.daysDeltaFromTarget)

\* everything recomputeProjectionWithFTE must leave alone
Frame(m) ==
  <<m.sprints, m.originMs, m.todayMs, m.targetDateMs, m.targetScope,
    m.latestScope, m.currentSprintStartMs, m.currentSprintEndMs,
    m.totalDoneStories, m.hasAnyDone, m.sprintLengthDays,
    m.projection.fromSprintIndex, m.projection.fromTimeMs, m.projection.fromDone,
    m.projection.avgVelPerFTE, m.projection.requiredFTEToHitTarget,
    m.projection.suggestedMaxFTE, m.projection.remainingStoriesFromAnchor,
    m.projection.sprintsRemainingToTarget,
    m.projection.requiredStoriesPerSprintToHitTarget,
    m.projection.recentStoriesPerSprint>>

\* C8: recomputeProjectionWithFTE changes at most hasSignal,
\* projectedDonePerSprint, the three timestamps, isOnTrack and
\* daysDeltaFromTarget: every other field is that of the input model.
C8_RecomputeFrame == pc = "recomputed" => Frame(model) = Frame(prev)

\* C8 witness: a re-parameterization that changed the forecast of a model with
\* a required FTE
C8_Witness ==
  /\ pc = "recomputed"
  /\ Forecast(model) # Forecast(prev)
  /\ ~IsNull(model.projection.requiredFTEToHitTarget)
  /\ RGt(Val(model.projection.requiredFTEToHitTarget), R(0))

\* the FTE a build or a re-parameterization works with: max(0.1, f), 0 for a
\* negative or non-finite f
Effective(f) == IF f.d = 0 \/ f.n * 10 < f.d THEN Rat(1, 10) ELSE f
\* the full rebuild at the FTE of the last re-parameterization
Rebuilt == buildBurnupModel([input EXCEPT !.sprintFTE = fteArg])

\* C9 as claimed: with a velocity signal, re-parameterizing the model built at
\* FTE a with FTE b gives the forecast fields of the model built at FTE b.
C9_Original ==
  (FirstSlide /\ prev.projection.hasSignal) => Forecast(model) = Forecast(Rebuilt)

\* C9 amended: with a velocity signal, re-parameterizing the model built at FTE
\* a with FTE b gives the forecast fields of the model built at FTE b when
\* max(0.1, a) = max(0.1, b).  In general it projects the avgVelPerFTE stored by
\* the build at a times max(0.1, b), while the build at b projects its own
\* avgVelPerFTE times max(0.1, b); the two avgVelPerFTE are the same mean of
\* samples divided by max(0.1, a) and by max(0.1, b), so the re-parameterized
\* velocity is that of the rebuild scaled by max(0.1, b) / max(0.1, a).
C9_FastPathScaled ==
  (FirstSlide /\ prev.projection.hasSignal) =>
    \A rebuilt \in {Rebuilt} :
      /\ Effective(input.sprintFTE) = Effective(fteArg)
           => Forecast(model) = Forecast(rebuilt)
      /\ model.projection.projectedDonePerSprint
           = Some(RMul(Val(prev.projection.avgVelPerFTE), Effective(fteArg)))
      /\ rebuilt.projection.projectedDonePerSprint
           = Some(RMul(Val(rebuilt.projection.avgVelPerFTE), Effective(fteArg)))
      /\ RMul(Val(prev.projection.avgVelPerFTE), Effective(input.sprintFTE))
           = RMul(Val(rebuilt.projection.avgVelPerFTE), Effective(fteArg))

\* C9 witness: built at FTE 1, re-parameterized at FTE 2, twice the velocity of
\* the rebuild at FTE 2
C9_Witness ==
  /\ FirstSlide /\ prev.projection.hasSignal
  /\ input.sprintFTE = R(1) /\ fteArg = R(2)
  /\ Remaining(model) > 0
  /\ model.projection.projectedDonePerSprint
       = Some(RMul(R(2), Val(Rebuilt.projection.projectedDonePerSprint)))

\* C10: recomputeProjectionWithFTE returns its input model, every field equal,
\* when the model has no sprints, hasSignal is false, an anchor field is null or
\* avgVelPerFTE is null or not positive, for every FTE value.
C10_GuardNoOp ==
  (/\ pc = "recomputed"
   /\ \/ prev.sprints = <<>>
      \/ ~prev.projection.hasSignal
      \/ prev.projection.fromSprintIndex = Null
      \/ prev.projection.fromTimeMs = Null
      \/ prev.projection.fromDone = Null
      \/ prev.projection.avgVelPerFTE = Null
      \/ ~RGt(Val(prev.projection.avgVelPerFTE), R(0)))
  => model = prev

\* C10 witness: a model with an anchor but no signal, re-parameterized at FTE 2
C10_Witness ==
  /\ pc = "recomputed"
  /\ prev.sprints # <<>>
  /\ ~prev.projection.hasSignal
  /\ prev.projection.fromSprintIndex # Null
  /\ fteArg = R(2)
  /\ model = prev

\* the build has ended, with a model or without one
Ended == pc # "input"

\* C11: when devCompletionISO is missing or unparseable, buildBurnupModel
\* returns, whatever the issues and the FTE, a model with no sprints,
\* targetScope, latestScope and totalDoneStories 0, hasAnyDone false, isOnTrack
\* and daysDeltaFromTarget null, hasSignal false and every other projection
\* field null.
C11_InvalidTargetEmptyModel ==
  (Ended /\ ~ValidTarget) =>
    /\ Returned
    /\ model.sprints = <<>>
    /\ model.targetScope = 0
    /\ model.latestScope = 0
    /\ model.totalDoneStories = 0
    /\ model.hasAnyDone = FALSE
    /\ model.isOnTrack = Null
    /\ model.daysDeltaFromTarget = Null
    /\ model.projection = NoProjection

\* C11 witness: a done issue, FTE 2 and a malformed today under a missing target
C11_Witness ==
  /\ pc = "built"
  /\ input.devCompletionISO.kind = "absent"
  /\ input.todayISO.kind = "bad"
  /\ input.sprintFTE = R(2)
  /\ \E k \in 1..Len(input.stories) :
       /\ input.stories[k].statusCategory = "Done"
       /\ input.stories[k].created # <<>>
       /\ input.stories[k].resolutiondate # <<>>
  /\ model.sprints = <<>>

\* C12 as claimed: when devCompletionISO is missing or unparseable, the
\* returned model's targetDateMs is not finite.
C12_TargetNotFinite ==
  (pc = "built" /\ ~ValidTarget) => ~IsFinite(model.targetDateMs)

\* C12 witness: the empty model of an unparseable target carries today as its
\* finite targetDateMs
C12_Witness ==
  /\ pc = "built"
  /\ input.devCompletionISO.kind = "bad"
  /\ IsFinite(model.targetDateMs)
  /\ model.targetDateMs = TodayMs(input)

\* C13 as claimed: for every input with sprintLengthDays >= 1, whatever the
\* issues, the FTE and the three date strings, buildBurnupModel ends with a
\* returned model.
C13_BuildReturns ==
  (Ended /\ SprintLenDays(input) >= 1) => Returned

\* C13 witness: the bucketing loop under a valid target and a todayISO that is
\* present but not a date never meets its exit test
C13_Witness ==
  /\ pc = "diverged"
  /\ ValidTarget
  /\ input.todayISO.kind = "bad"
  /\ SprintLenDays(input) >= 1

\* today is the ambient clock or a parseable todayISO
ValidToday == input.todayISO.kind # "bad"
\* a number | null field is null or a finite number
NullOrFinite(o) == IsNull(o) \/ IsFinite(Val(o))
\* The fields of a model that hold a computed number; the sprint fields, the
\* scopes and the counts are integers by construction.
NumbersFinite(m) ==
  /\ IsFinite(m.originMs) /\ IsFinite(m.targetDateMs) /\ IsFinite(m.todayMs)
  /\ IsFinite(m.currentSprintStartMs) /\ IsFinite(m.currentSprintEndMs)
  /\ NullOrFinite(m.projection.projectedDonePerSprint)
  /\ NullOrFinite(m.projection.avgVelPerFTE)
  /\ NullOrFinite(m.projection.projectedCompletionMs)
  /\ NullOrFinite(m.projection.projectedCompletionEarlyMs)
  /\ NullOrFinite(m.projection.projectedCompletionLateMs)
  /\ NullOrFinite(m.projection.requiredFTEToHitTarget)
  /\ NullOrFinite(m.projection.suggestedMaxFTE)
  /\ NullOrFinite(m.projection.requiredStoriesPerSprintToHitTarget)
  /\ NullOrFinite(m.projection.recentStoriesPerSprint)
  /\ NullOrFinite(m.daysDeltaFromTarget)

\* C14 as claimed: for a valid target, a valid today, sprintLengthDays >= 1 and
\* every sprintFTE, every numeric field of the model returned by
\* buildBurnupModel, and by any later recomputeProjectionWithFTE with any FTE,
\* is null or a finite number.
C14_NumbersFinite ==
  (Returned /\ ValidTarget /\ ValidToday /\ SprintLenDays(input) >= 1)
    => NumbersFinite(model)

\* C14 witness: a model built at the FTE floor and re-parameterized with a huge
\* finite FTE projects an infinite velocity
C14_Witness ==
  /\ FirstSlide /\ ValidTarget /\ ValidToday
  /\ input.sprintFTE = R(0)
  /\ fteArg = HugeFte
  /\ NumbersFinite(prev)
  /\ model.projection.projectedDonePerSprint = Some(Infinity)

\* a model built at a huge finite FTE and re-parameterized at FTE 1 projects
\* infinite completion times and an infinite daysDeltaFromTarget
C14_InfiniteCompletion ==
  /\ FirstSlide /\ ValidTarget /\ ValidToday
  /\ input.sprintFTE = HugeFte
  /\ fteArg = R(1)
  /\ NumbersFinite(prev)
  /\ model.projection.projectedCompletionMs = Some(Infinity)
  /\ model.daysDeltaFromTarget = Some(Infinity)
  /\ model.isOnTrack = Null

\* every model as built has finite numbers: the infinite ones come from a
\* re-parameterization
C14_BuiltFinite ==
  (pc = "built" /\ ValidTarget /\ ValidToday) => NumbersFinite(model)

\* an issue whose creation date is missing or unparseable
Undated(issue) == issue.created = <<>>
\* the input without its undated issues
DatedOnly ==
  [input EXCEPT !.stories = SelectSeq(input.stories, LAMBDA issue : ~Undated(issue))]

\* C15: issues whose creation date is missing or unparseable are dropped before
\* any computation: the build of an input with such issues, whatever their
\* status, category and resolution date, ends as the build of the input
\* without them, with the same model.
C15_UndatedDropped ==
  (pc \in {"built", "diverged"}) =>
    /\ (pc = "diverged") = BuildDiverges(DatedOnly)
    /\ pc = "built" => model = buildBurnupModel(DatedOnly)

\* C15 witness: a model built from a done issue and an undated issue of category
\* Done counts the one dated issue
C15_Witness ==
  /\ pc = "built" /\ ValidTarget
  /\ Len(input.stories) = 2
  /\ \E k \in 1..2 : Undated(input.stories[k]) /\ input.stories[k].statusCategory = "Done"
  /\ \E k \in 1..2 : ~Undated(input.stories[k])
  /\ model.latestScope = 1
  /\ model.totalDoneStories = 1

\* two undated issues alone give the model of an empty issue list
C15_OnlyUndated ==
  /\ pc = "built" /\ ValidTarget
  /\ Len(input.stories) = 2
  /\ \A k \in 1..2 : Undated(input.stories[k])
  /\ model.sprints # <<>>
  /\ model.latestScope = 0

\* (projectedCompletionMs - targetDateMs) / one day, of a model with a central
\* projection
DaysToTarget(m) ==
  RDiv(RSub(Val(m.projection.projectedCompletionMs), m.targetDateMs), R(DAY_MS))
\* k = Math.round(x) for a finite x: k - 1/2 <= x < k + 1/2
IsRounded(k, x) ==
  /\ IsFinite(k) /\ k.d = 1
  /\ RLe(RSub(k, Rat(1, 2)), x)
  /\ RLt(x, RAdd(k, Rat(1, 2)))

\* C16 as claimed: in every returned model isOnTrack and daysDeltaFromTarget are
\* null exactly when projectedCompletionMs is null (as it is when hasSignal is
\* false); otherwise daysDeltaFromTarget is
\* round((projectedCompletionMs - targetDateMs) / one day) and isOnTrack is
\* (daysDeltaFromTarget <= 0).
C16_HealthFollowsProjection ==
  Returned =>
    /\ ~model.projection.hasSignal => IsNull(model.projection.projectedCompletionMs)
    /\ IF IsNull(model.projection.projectedCompletionMs)
       THEN model.isOnTrack = Null /\ model.daysDeltaFromTarget = Null
       ELSE /\ ~IsNull(model.daysDeltaFromTarget)
            /\ IsRounded(Val(model.daysDeltaFromTarget), DaysToTarget(model))
            /\ model.isOnTrack = Some(RLe(Val(model.daysDeltaFromTarget), R(0)))

\* C16 witness: a re-parameterized model whose central projection is not null
\* while isOnTrack is, with a daysDeltaFromTarget that is no number of days
C16_Witness ==
  /\ pc = "recomputed" /\ ValidTarget /\ ValidToday
  /\ model.projection.hasSignal
  /\ ~IsNull(model.projection.projectedCompletionMs)
  /\ model.isOnTrack = Null
  /\ ~IsNull(model.daysDeltaFromTarget)
  /\ ~IsFinite(Val(model.daysDeltaFromTarget))

\* with a finite central projection the health fields are as claimed
C16_FiniteHealth ==
  (Returned /\ NullOrFinite(model.projection.projectedCompletionMs))
    => C16_HealthFollowsProjection

\* fromTimeMs + (remaining / v) * sprintLengthMs of a model with an anchor
ProjectedAt(m, v) ==
  RAdd(R(Val(m.projection.fromTimeMs)),
       RMul(RDiv(R(Remaining(m)), v), R(m.sprintLengthDays * DAY_MS)))

\* C17: whenever the central completion timestamp of a returned model is not
\* null, none of the three is, projectedCompletionMs is
\* fromTimeMs + (remaining / projectedDonePerSprint) * sprintLengthMs, the early
\* one is the same at velocity * 1.2 and the late one at velocity * 0.8, and
\* fromTimeMs <= early <= central <= late.
C17_CompletionBand ==
  (Returned /\ ~IsNull(model.projection.projectedCompletionMs)) =>
    \A v \in {Val(model.projection.projectedDonePerSprint)} :
    \A t \in {Timestamps(model)} :
      /\ ~IsNull(t[2]) /\ ~IsNull(t[3])
      /\ Val(t[1]) = ProjectedAt(model, v)
      /\ Val(t[2]) = ProjectedAt(model, RMul(v, Rat(6, 5)))
      /\ Val(t[3]) = ProjectedAt(model, RMul(v, Rat(4, 5)))
      /\ RLe(R(Val(model.projection.fromTimeMs)), Val(t[2]))
      /\ RLe(Val(t[2]), Val(t[1]))
      /\ RLe(Val(t[1]), Val(t[3]))

\* C17 witness: a re-parameterized model with work remaining and three distinct
\* finite completion timestamps after the anchor
C17_Witness ==
  /\ pc = "recomputed"
  /\ ~IsNull(model.projection.projectedCompletionMs)
  /\ Remaining(model) > 0
  /\ \A i \in 1..3 : IsFinite(Val(Timestamps(model)[i]))
  /\ RLt(R(Val(model.projection.fromTimeMs)), Val(Timestamps(model)[2]))
  /\ RLt(Val(Timestamps(model)[2]), Val(Timestamps(model)[1]))
  /\ RLt(Val(Timestamps(model)[1]), Val(Timestamps(model)[3]))

\* remainingToTarget = max(0, targetScope - fromDone) of a model with an anchor
RemainingToTarget(m) == IMax(0, m.targetScope - Val(m.projection.fromDone))
\* (remainingToTarget / ((targetDateMs - fromTimeMs) / sprintLengthMs)) / avgVelPerFTE
FteQuotient(m) ==
  RDiv(RDiv(R(RemainingToTarget(m)),
            RDiv(RSub(m.targetDateMs, R(Val(m.projection.fromTimeMs))),
                 R(m.sprintLengthDays * DAY_MS))),
       Val(m.projection.avgVelPerFTE))
\* <<requiredFTEToHitTarget, suggestedMaxFTE>> of a model
FteAdvice(m) == <<m.projection.requiredFTEToHitTarget, m.projection.suggestedMaxFTE>>
VelocitySignal == pc = "built" /\ ~IsNull(model.projection.avgVelPerFTE)

\* C18 as claimed: when the build has a velocity signal, if remainingToTarget
\* is 0 then requiredFTEToHitTarget = 0 and suggestedMaxFTE = sanitised
\* sprintFTE + 1; else if targetDateMs > fromTimeMs then requiredFTEToHitTarget
\* is the quotient and suggestedMaxFTE is the quotient + 1; else both are null.
C18_Original ==
  VelocitySignal =>
    IF RemainingToTarget(model) = 0
    THEN FteAdvice(model) = <<Some(R(0)), Some(RAdd(SafeFte(input.sprintFTE), R(1)))>>
    ELSE IF RGt(model.targetDateMs, R(Val(model.projection.fromTimeMs)))
    THEN \A q \in {FteQuotient(model)} :
           FteAdvice(model) = <<Some(q), Some(RAdd(q, R(1)))>>
    ELSE FteAdvice(model) = <<Null, Null>>

\* C18 amended: as claimed, except that when work remains and the target is
\* after the anchor the two fields are the quotient and the quotient + 1 only
\* if the quotient is finite, and are both null if it is not.
C18_RequiredFte ==
  VelocitySignal =>
    IF RemainingToTarget(model) = 0
    THEN FteAdvice(model) = <<Some(R(0)), Some(RAdd(SafeFte(input.sprintFTE), R(1)))>>
    ELSE IF RGt(model.targetDateMs, R(Val(model.projection.fromTimeMs)))
    THEN \A q \in {FteQuotient(model)} :
           FteAdvice(model) = IF IsFinite(q) THEN <<Some(q), Some(RAdd(q, R(1)))>>
                                             ELSE <<Null, Null>>
    ELSE FteAdvice(model) = <<Null, Null>>

\* C18 witness: work remains to a target after the anchor and the required FTE
\* is a finite number above the FTE of the build
C18_Witness ==
  /\ VelocitySignal /\ RemainingToTarget(model) > 0
  /\ RGt(model.targetDateMs, R(Val(model.projection.fromTimeMs)))
  /\ ~IsNull(model.projection.requiredFTEToHitTarget)
  /\ RGt(Val(model.projection.requiredFTEToHitTarget), SafeFte(input.sprintFTE))
  /\ model.projection.suggestedMaxFTE
       = Some(RAdd(Val(model.projection.requiredFTEToHitTarget), R(1)))

\* the quotient is beyond the double range: no advice although work remains
\* and the target is after the anchor
C18_QuotientOverflows ==
  /\ VelocitySignal /\ RemainingToTarget(model) > 0
  /\ RGt(model.targetDateMs, R(Val(model.projection.fromTimeMs)))
  /\ ~IsFinite(FteQuotient(model))
  /\ FteAdvice(model) = <<Null, Null>>
\* work remains to a target that is not after the anchor
C18_TargetBeforeAnchor ==
  /\ VelocitySignal /\ RemainingToTarget(model) > 0
  /\ ~RGt(model.targetDateMs, R(Val(model.projection.fromTimeMs)))
\* nothing remains to the target
C18_NothingRemains ==
  /\ VelocitySignal /\ RemainingToTarget(model) = 0
  /\ input.sprintFTE = NaN

\* the sum of doneThisSprint over the first k sprints
RECURSIVE DoneUpTo(_, _)
DoneUpTo(sprints, k) ==
  IF k = 0 THEN 0 ELSE DoneUpTo(sprints, k - 1) + sprints[k].doneThisSprint

\* C19: in every built model, for every sprint i, doneThisSprint >= 0 and is the
\* exact increment of cumDoneEnd (cumDoneEnd itself for the first sprint), so the
\* sum of doneThisSprint over sprints 0..i is cumDoneEnd[i] and the sum over all
\* sprints is totalDoneStories.
C19_DoneIncrements ==
  (Returned /\ ValidTarget) =>
    /\ \A k \in 1..NSprints :
         /\ model.sprints[k].doneThisSprint >= 0
         /\ model.sprints[k].doneThisSprint
              = model.sprints[k].cumDoneEnd
                  - (IF k = 1 THEN 0 ELSE model.sprints[k - 1].cumDoneEnd)
         /\ DoneUpTo(model.sprints, k) = model.sprints[k].cumDoneEnd
    /\ DoneUpTo(model.sprints, NSprints) = model.totalDoneStories

\* C19 witness: a built model with deliveries in two different sprints, after a
\* first sprint with none and with an empty sprint between them
C19_Witness ==
  /\ pc = "built" /\ NSprints >= 4
  /\ model.sprints[1].doneThisSprint = 0
  /\ model.totalDoneStories = 2
  /\ \E j, k, l \in 2..NSprints :
       /\ j < k /\ k < l
       /\ model.sprints[j].doneThisSprint = 1
       /\ model.sprints[k].doneThisSprint = 0
       /\ model.sprints[l].doneThisSprint = 1

\* C20 as claimed: with a done, non-cancelled issue, the first sprint ends at
\* the earliest done resolution day, for every sprint length and every day of
\* the week.
C20_FirstSprintEndsAtEarliestDone ==
  (pc = "built" /\ ValidTarget /\ RawDone # {}) =>
    /\ NSprints >= 1
    /\ model.sprints[1].endMs = EarliestDoneDay * DAY_MS

\* C20 witness: 14-day sprints, earliest completion on Saturday 2025-01-18: the
\* origin is Monday 2025-01-06 and the first sprint ends on Monday 2025-01-20
C20_Witness ==
  /\ pc = "built" /\ RawDone # {}
  /\ InputSprintLen = 14 /\ EarliestDoneDay = Jan20_2025 - 2
  /\ OriginDay = Jan20_2025 - 14
  /\ model.sprints[1].endMs = Jan20_2025 * DAY_MS

\* a one-day sprint, earliest completion on Monday 2025-01-20: the first sprint
\* runs over Friday 2025-01-17 and ends two days before the completion
C20_OneDaySprint ==
  /\ pc = "built" /\ RawDone # {}
  /\ InputSprintLen = 1 /\ EarliestDoneDay = Jan20_2025
  /\ model.sprints[1].endMs = (Jan20_2025 - 2) * DAY_MS

\* the first sprint does end at the earliest done day when the sprint length is
\* a whole number of weeks and that day is a Monday to Friday
C20_WholeWeeks ==
  (pc = "built" /\ ValidTarget /\ RawDone # {}
     /\ InputSprintLen % 7 = 0 /\ IsMonToFri(EarliestDoneDay)) =>
    model.sprints[1].endMs = EarliestDoneDay * DAY_MS

\* the issues of the input that normalise, normalised
Normalised == NormaliseAll(input.stories)
NoneDone == \A k \in 1..Len(Normalised) : ~Normalised[k].isDone
\* the UTC day (as a timestamp) of the earliest creation among the raw issues
\* that carry a creation date
EarliestCreatedMs ==
  SetMin({(Val(input.stories[k].created) \div DAY_MS) * DAY_MS :
            k \in {j \in 1..Len(input.stories) : ~IsNull(input.stories[j].created)}})
FallbackMs == parseISODate(input.sprintStartISO)

\* C21: in a build without completions, if no issue normalises originMs is the
\* fallback sprintStartISO day when it parses, else today; if issues normalise
\* but none is done, originMs is min(fallback day, earliest creation day) when
\* the fallback parses, else the earliest creation day (cancelled issues count);
\* originMs is always an exact multiple of one UTC day.
C21_OriginWithoutCompletions ==
  (pc = "built" /\ ValidTarget) =>
    /\ IsFinite(model.originMs) /\ model.originMs.d = 1
    /\ model.originMs.n % DAY_MS = 0
    /\ Normalised = <<>> =>
         model.originMs = (IF IsFinite(FallbackMs) THEN FallbackMs ELSE TodayMs(input))
    /\ (Normalised # <<>> /\ NoneDone) =>
         model.originMs = (IF IsFinite(FallbackMs)
                           THEN RMin(FallbackMs, R(EarliestCreatedMs))
                           ELSE R(EarliestCreatedMs))

\* C21 witness: no completion, the only issue that normalises is a cancelled
\* one created during a day before the parseable fallback start
C21_Witness ==
  /\ pc = "built" /\ ValidTarget
  /\ Len(Normalised) = 1 /\ Normalised[1].isCancelled /\ NoneDone
  /\ IsFinite(FallbackMs)
  /\ EarliestCreatedMs < FallbackMs.n
  /\ Normalised[1].createdMs = EarliestCreatedMs
  /\ model.originMs = R(EarliestCreatedMs)

\* no issue normalises and the fallback start does not parse: the origin is today
C21_OriginToday ==
  /\ pc = "built" /\ ValidTarget
  /\ input.stories # <<>> /\ Normalised = <<>>
  /\ ~IsFinite(FallbackMs)
  /\ model.originMs = TodayMs(input)
\* issues normalise, none is done, the fallback does not parse
C21_OriginEarliestCreated ==
  /\ pc = "built" /\ ValidTarget
  /\ Normalised # <<>> /\ NoneDone /\ ~IsFinite(FallbackMs)
  /\ model.originMs = R(EarliestCreatedMs)
\* the fallback start is before every creation day
C21_OriginFallback ==
  /\ pc = "built" /\ ValidTarget
  /\ Normalised # <<>> /\ NoneDone /\ IsFinite(FallbackMs)
  /\ FallbackMs.n < EarliestCreatedMs
  /\ model.originMs = FallbackMs

\* values of sprintStartISO: days before and after the issues' dates, malformed,
\* missing
StartValues == {Day(3), Day(10), Day(14), Day(30), BadISO, AbsentISO}
\* the build of the input with another sprintStartISO has the outcome of the
\* build of the input
SameUnderEveryStart ==
  \A alt \in {[input EXCEPT !.sprintStartISO = s] : s \in StartValues} :
    /\ BuildDiverges(alt) = (pc = "diverged")
    /\ pc = "built" => buildBurnupModel(alt) = model

C22_EmptyModelOrigin ==
  /\ pc = "built" /\ ~ValidTarget /\ ~NoneDone
  /\ IsFinite(FallbackMs)
  /\ model.originMs = FallbackMs
  /\ model.originMs # buildBurnupModel([input EXCEPT !.sprintStartISO = Day(3)]).originMs

\* the status text of a raw issue, trimmed and upper-cased
RawStatus(issue) == ToUpperCase(Trim(issue.status))
\* the done signals of a raw issue: its category, or its status text
HasDoneSignal(issue) ==
  \/ issue.statusCategory = "Done"
  \/ RawStatus(issue) = DONE
  \/ StartsWith(RawStatus(issue), DONE_SP)

\* C23: every normalised issue that is done has a resolvedMs, is not cancelled
\* and carries a done signal (category Done, or status text DONE or starting
\* with "DONE "); a build counts no more done issues than the non-cancelled
\* issues with a done signal.
C23_DoneNeedsAllSignals ==
  /\ \A k \in 1..Len(input.stories) :
       \A n \in {normaliseIssue(input.stories[k])} :
         (~IsNull(n) /\ Val(n).isDone) =>
           /\ ~IsNull(Val(n).resolvedMs)
           /\ ~Val(n).isCancelled
           /\ ~Includes(RawStatus(input.stories[k]), WITHDRAWN)
           /\ ~Includes(RawStatus(input.stories[k]), CANCELLED)
           /\ HasDoneSignal(input.stories[k])
  /\ pc = "built" =>
       model.totalDoneStories
         <= Cardinality({k \in 1..Len(input.stories) :
                           /\ HasDoneSignal(input.stories[k])
                           /\ ~Includes(RawStatus(input.stories[k]), WITHDRAWN)
                           /\ ~Includes(RawStatus(input.stories[k]), CANCELLED)})

\* C23 witness: a build that counts as done an issue whose only done signal is
\* a status text starting with "DONE ", beside an issue with that text and a
\* resolution date that is cancelled
C23_Witness ==
  /\ pc = "built" /\ Len(input.stories) = 1
  /\ input.stories[1].statusCategory # "Done"
  /\ input.stories[1].status = Str_done_late
  /\ Val(normaliseIssue(input.stories[1])).isDone
  /\ model.totalDoneStories = 1
  /\ ~Val(normaliseIssue([input.stories[1] EXCEPT !.status = Str_done_cancelled])).isDone

\* the builds, in floating point, of the input with another sprintFTE
OtherFteBuilds ==
  {buildBurnupModelInDoubles([input EXCEPT !.sprintFTE = f]) : f \in DoubleFtes}
\* what a build returns apart from the velocity and what is computed from it
FteFreePart(m) ==
  <<m.sprints, m.originMs, m.todayMs, m.targetDateMs, m.targetScope,
    m.latestScope, m.currentSprintStartMs, m.currentSprintEndMs,
    m.totalDoneStories, m.hasAnyDone, m.sprintLengthDays,
    m.projection.hasSignal, m.projection.fromSprintIndex,
    m.projection.fromTimeMs, m.projection.fromDone,
    m.projection.remainingStoriesFromAnchor,
    m.projection.sprintsRemainingToTarget,
    m.projection.requiredStoriesPerSprintToHitTarget,
    m.projection.recentStoriesPerSprint>>
\* |a - b| <= |b| * 2^(2 - MANTISSA_BITS): a and b agree to four roundings
Close(a, b) ==
  RLe(RMul(R(Pow2(MANTISSA_BITS - 2)),
           IF RLt(a, b) THEN RSub(b, a) ELSE RSub(a, b)),
      IF RLt(b, R(0)) THEN RNeg(b) ELSE b)

\* C24 as claimed: two builds that differ only in sprintFTE return the same
\* projectedDonePerSprint, the same three projected completion timestamps and
\* the same isOnTrack and daysDeltaFromTarget.
C24_Original ==
  pc = "built" => \A other \in OtherFteBuilds : Forecast(other) = Forecast(model)

\* C24 amended: two builds that differ only in sprintFTE return the same model
\* apart from avgVelPerFTE, requiredFTEToHitTarget, suggestedMaxFTE and the
\* forecast; their projectedDonePerSprint are both null or agree up to the
\* rounding of the division by and the multiplication with the floored FTE.
C24_ForecastCloseUnderFte ==
  pc = "built" =>
    \A other \in OtherFteBuilds :
      /\ FteFreePart(other) = FteFreePart(model)
      /\ IsNull(other.projection.projectedDonePerSprint)
           = IsNull(model.projection.projectedDonePerSprint)
      /\ ~IsNull(model.projection.projectedDonePerSprint) =>
           Close(Val(other.projection.projectedDonePerSprint),
                 Val(model.projection.projectedDonePerSprint))

\* C24 witness: a build with 13 FTE whose projectedDonePerSprint is not the one
\* of the build with 1 FTE
C24_Witness ==
  /\ pc = "built" /\ input.sprintFTE = R(13)
  /\ model.projection.hasSignal
  /\ model.projection.projectedDonePerSprint
       # buildBurnupModelInDoubles([input EXCEPT !.sprintFTE = R(1)]).projection.projectedDonePerSprint

\* in exact arithmetic the forecast of a build is the same under every FTE
C24_ExactArithmetic ==
  pc = "built" =>
    \A f \in FteValues :
      Forecast(buildBurnupModel([input EXCEPT !.sprintFTE = f])) = Forecast(model)

\* C25: after any sequence of re-parameterizations of a built model, the model
\* is equal in every field to the built model re-parameterized once with the
\* last FTE value.
C25_PathIndependent ==
  pc = "recomputed" => model = recomputeProjectionWithFTE(base, fteArg)

\* C25 witness: a second or later slider change of a model with a velocity
\* signal, after a position with another forecast than the built one and than
\* the present one
C25_Witness ==
  /\ pc = "recomputed" /\ base.projection.hasSignal
  /\ Remaining(base) > 0
  /\ Forecast(prev) # Forecast(base)
  /\ Forecast(prev) # Forecast(model)
  /\ Forecast(model) # Forecast(base)

\* C26: whenever a built model has an anchor, fromTimeMs is currentSprintStartMs,
\* fromTimeMs <= todayMs < fromTimeMs + sprintLengthMs, fromSprintIndex is the
\* greatest index of a closed sprint, every sprint before it is closed and every
\* sprint after it is open.
C26_AnchorBeforeCurrentSprint ==
  (Returned /\ ValidTarget /\ ~IsNull(model.projection.fromTimeMs)) =>
    \A from \in {Val(model.projection.fromTimeMs)} :
    \A idx \in {Val(model.projection.fromSprintIndex)} :
      /\ R(from) = model.currentSprintStartMs
      /\ RLe(R(from), model.todayMs)
      /\ RLt(model.todayMs, R(from + model.sprintLengthDays * DAY_MS))
      /\ idx \in 0..(NSprints - 1)
      /\ At(model.sprints, idx).endMs = from
      /\ \A i \in 0..(NSprints - 1) : At(model.sprints, i).isClosed = (i <= idx)

\* C26 witness: today is inside a sprint, not at its start; the anchor is the
\* end of the sprint before it, several closed sprints after the origin
C26_Witness ==
  /\ pc = "built" /\ ~IsNull(model.projection.fromTimeMs)
  /\ Val(model.projection.fromSprintIndex) >= 2
  /\ RLt(R(Val(model.projection.fromTimeMs)), model.todayMs)
  /\ model.sprintLengthDays > 1
  /\ R(Val(model.projection.fromTimeMs)) = model.currentSprintStartMs

\* C27: in every valid-target build latestScope is the number of normalised
\* non-cancelled issues and totalDoneStories the number of normalised done
\* issues, whatever their dates; when an issue normalises there are at least 7
\* sprints and the last one is not closed; targetScope <= latestScope.
C27_TotalsCoverAllIssues ==
  (pc = "built" /\ ValidTarget) =>
    \A stories \in {Normalised} :
      /\ model.latestScope
           = Cardinality({k \in 1..Len(stories) : ~stories[k].isCancelled})
      /\ model.totalDoneStories
           = Cardinality({k \in 1..Len(stories) : stories[k].isDone})
      /\ stories # <<>> =>
           /\ NSprints >= 7
           /\ ~model.sprints[NSprints].isClosed
      /\ model.targetScope <= model.latestScope

\* C27 witness: an issue created after today and after the target date, and an
\* issue resolved after today, are both counted
C27_Witness ==
  /\ pc = "built" /\ ValidTarget /\ Len(Normalised) = 2
  /\ \E k \in 1..2 :
       /\ RLt(model.todayMs, R(Normalised[k].createdMs))
       /\ RLt(model.targetDateMs, R(Normalised[k].createdMs))
  /\ \E k \in 1..2 :
       /\ Normalised[k].isDone
       /\ RLt(model.todayMs, R(Val(Normalised[k].resolvedMs)))
  /\ model.latestScope = 2 /\ model.totalDoneStories = 2
  /\ model.targetScope < model.latestScope

\* a raw issue that normalises, is not cancelled, has category Done or the
\* status text DONE, and has no parseable resolution date
DatelessDone(issue) ==
  /\ ~IsNull(issue.created) /\ IsNull(issue.resolutiondate)
  /\ ~Includes(RawStatus(issue), WITHDRAWN)
  /\ ~Includes(RawStatus(issue), CANCELLED)
  /\ (issue.statusCategory = "Done" \/ RawStatus(issue) = DONE)
\* a raw issue that normalises and whose only done signal is a status text
\* starting with "DONE ", without a resolution date
DatelessPrefixOnly(issue) ==
  /\ ~IsNull(issue.created) /\ IsNull(issue.resolutiondate)
  /\ issue.statusCategory # "Done" /\ RawStatus(issue) # DONE
  /\ StartsWith(RawStatus(issue), DONE_SP)
CreatedDayMs(issue) == (Val(issue.created) \div DAY_MS) * DAY_MS
\* the issue is done, resolved on its creation day, counted in the first sprint
\* that ends after that day, and the origin is derived from a day not after it
ResolvedOnCreationDay(issue) ==
  \A n \in {Val(normaliseIssue(issue))} :
    /\ n.isDone
    /\ n.resolvedMs = Some(CreatedDayMs(issue))
    /\ model.hasAnyDone
    /\ \E k \in 1..NSprints :
         /\ model.sprints[k].endMs > CreatedDayMs(issue)
         /\ k > 1 => model.sprints[k - 1].endMs <= CreatedDayMs(issue)
         /\ model.sprints[k].cumDoneEnd >= 1
    /\ RLe(model.originMs,
           R(subtractWorkingDaysUTC(CreatedDayMs(issue),
                                    WorkingDaysBack(SprintLenDays(input)))))

C28_AfterEpoch ==
  (pc = "built" /\ ValidTarget) =>
    \A k \in 1..Len(input.stories) :
      /\ (DatelessDone(input.stories[k]) /\ CreatedDayMs(input.stories[k]) # 0)
           => ResolvedOnCreationDay(input.stories[k])
      /\ DatelessPrefixOnly(input.stories[k]) =>
           ~Val(normaliseIssue(input.stories[k])).isDone
\* a dateless done issue created after 1970-01-01 sets the origin
C28_OriginFromCreation ==
  /\ pc = "built" /\ Len(input.stories) = 2
  /\ DatelessDone(input.stories[1])
  /\ CreatedDayMs(input.stories[1]) = 22
  /\ model.totalDoneStories = 2
  /\ model.originMs = R(subtractWorkingDaysUTC(22, 1))

\* the dashboard shows a model
Shown == pc \in {"created", "changed"}
\* the model the chart shows
Display == displayBurnupModel(model, scopeOverride)
\* the 0-based index of the last closed sprint of the dashboard's model, or -1
DashLastClosed == LastClosedFrom(model.sprints, Len(model.sprints) - 1)
ScopeSliderOn == computeScopeSliderConfig(model).enabled /\ ~IsNull(scopeOverride)

\* C29 as claimed: for every override value of the scope slider range, the
\* model of buildScopeAdjustedModel has its sprints up to and including the
\* last closed one equal to the base model's and cumDoneEnd[i] <= scopeAtEnd[i]
\* in every sprint.
C29_OverrideKeepsSprintInvariant ==
  (Shown /\ ScopeSliderOn) =>
    /\ Len(Display.sprints) = Len(model.sprints)
    /\ \A i \in 0..DashLastClosed : At(Display.sprints, i) = At(model.sprints, i)
    /\ \A i \in 1..Len(Display.sprints) :
         Display.sprints[i].cumDoneEnd <= Display.sprints[i].scopeAtEnd

\* C29 witness: the scope slider stands at its minimum, below the number of
\* done issues, and an open sprint of the shown model has more done than scope
C29_Witness ==
  /\ Shown /\ ScopeSliderOn
  /\ scopeOverride = Some(R(computeScopeSliderConfig(model).min))
  /\ \E i \in 1..Len(Display.sprints) :
       /\ ~Display.sprints[i].isClosed
       /\ Display.sprints[i].scopeAtEnd = 0
       /\ Display.sprints[i].cumDoneEnd >= 12

\* the closed sprints are kept under every override
C29_ClosedSprintsKept ==
  (Shown /\ ScopeSliderOn) =>
    /\ Len(Display.sprints) = Len(model.sprints)
    /\ \A i \in 0..DashLastClosed : At(Display.sprints, i) = At(model.sprints, i)
    /\ \A i \in 1..Len(Display.sprints) :
         /\ Display.sprints[i].cumDoneEnd = model.sprints[i].cumDoneEnd
         /\ Display.sprints[i].endMs = model.sprints[i].endMs
    /\ Display.latestScope = IMax(0, RoundInt(Val(scopeOverride)))
\* an override not below the done count of the last sprint keeps the invariant
C29_NotBelowDone ==
  (Shown /\ ScopeSliderOn
     /\ RLe(R(model.sprints[Len(model.sprints)].cumDoneEnd), Val(scopeOverride))) =>
    \A i \in 1..Len(Display.sprints) :
      Display.sprints[i].cumDoneEnd <= Display.sprints[i].scopeAtEnd
\* an override above the baseline is shown
C29_ScopeRaised ==
  /\ Shown /\ ScopeSliderOn
  /\ Display.latestScope = computeScopeSliderConfig(model).max
  /\ Display.latestScope > model.latestScope

\* the velocity slider has been moved and the model has a velocity signal
SliderMoved == pc = "changed" /\ HasVelocity(model)
\* a tenth of the velocity per FTE: the forecast of the 0.1 FTE floor
FloorVelocity == RMul(Val(model.projection.avgVelPerFTE), Rat(1, 10))

\* C30 as claimed: after Create Burnup and any sequence of velocity-slider
\* changes ending with the value v (clamped into the slider bounds), a model
\* with a velocity signal has projection.projectedDonePerSprint = v.
C30_SliderIsForecastVelocity ==
  SliderMoved => model.projection.projectedDonePerSprint = Some(sliderVelocity)

\* C30 witness: the slider stands at 1 story per sprint, inside its bounds,
\* the velocity per FTE is 12, and the forecast uses 1.2 stories per sprint
C30_Witness ==
  /\ SliderMoved
  /\ sliderVelocity = R(1)
  /\ getVelocitySliderBounds(model).min = 1
  /\ model.projection.avgVelPerFTE = Some(R(12))
  /\ fteArg = Rat(1, 12)
  /\ model.projection.projectedDonePerSprint = Some(Rat(6, 5))

\* the forecast uses the slider value or a tenth of the velocity per FTE,
\* whichever is larger
C30_FlooredVelocity ==
  SliderMoved =>
    /\ RLe(R(getVelocitySliderBounds(model).min), sliderVelocity)
    /\ RLe(sliderVelocity, R(getVelocitySliderBounds(model).max))
    /\ model.projection.projectedDonePerSprint
         = Some(RMax(sliderVelocity, FloorVelocity))
\* a slider value above the floor is the velocity of the forecast
C30_AboveFloor ==
  /\ SliderMoved
  /\ sliderVelocity = Rat(3, 2)
  /\ RLt(FloorVelocity, sliderVelocity)
  /\ model.projection.projectedDonePerSprint = Some(Rat(3, 2))
  /\ model # base
====
